---- MODULE Spec2Model ----
(***************************************************************************)
(* eblog2doc: the discovery crawl (scraper.discover_posts), the hydration  *)
(* loop and the hand-over to document generation (cli.main), and the       *)
(* ordering used for final assembly (BlogPost.__lt__ under sorted()).      *)
(*                                                                         *)
(* Index-page URLs and post URLs are opaque identifiers (naturals); titles *)
(* of posts are strings over a small alphabet, compared as Python compares *)
(* str (lexicographically, a proper prefix being smaller).                 *)
(*                                                                         *)
(* Functions are also modelled on their own, each applied to every input   *)
(* of a bounded set: scraper.get_parser (SpecParser), parse_post of the    *)
(* four parsers (SpecParsePost, and SpecLinkPage for pages with link       *)
(* lists), scraper._find_pagination_link (SpecPagination), parse_index     *)
(* (SpecIndex), the date search of the generic parser (SpecDate),          *)
(* BlogPost.__lt__ (SpecLt), document.normalize_text (SpecText) and        *)
(* parse_post followed by document.clean_html_content (SpecClean).         *)
(***************************************************************************)
EXTENDS Integers, Sequences, FiniteSets, TLC

\* ---------------------------------------------------------------- bounds
\* distinct post URLs a parser may report
NumPostUrls == 2
\* posts one index page may yield
MaxPagePosts == 2
\* index-page URLs available beyond the page ceiling
ExtraUrls == 1
\* alphabet of post titles (characters 1..NumChars)
NumChars == 2
\* publication dates 1..MaxDate (a larger number is a later date)
MaxDate == 2
\* length of the lists handed to sorted() in SpecSort
MaxSortLen == 3
\* pieces of the host name handed to get_parser
MaxNetlocLen == 3
\* top-level elements of the <body> handed to parse_post
MaxBodyLen == 2
\* anchors of the page handed to _find_pagination_link
MaxAnchors == 2
\* the highest N of a /page/N/ ending
MaxPageNo == 2
\* links of the index page handed to a site parser's parse_index
MaxIndexLinks == 2
\* nodes on either side of an element in the date search
MaxSiblings == 7
\* anchors in the link list of a page handed to CedarDB's parse_post
MaxLinks == 4
\* characters of the string handed to normalize_text
MaxTextLen == 3
\* elements in the container of a post page that is parsed and then cleaned
MaxBlocks == 3
\* the link and its ancestors in the date search
MaxDepth == 7

\* ------------------------------------------------------ program constants
\* scraper.py:106  max_pages = 50  (safety limit)
max_pages == 50

\* generic.py:105  max_levels = 5
max_levels == 5
\* generic.py:137  if sibling_count > 5  (following siblings)
NextLimit == 5
\* generic.py:155  if sibling_count > 3  (preceding siblings)
PrevLimit == 3

\* Python's None for an optional datetime / an optional URL
NoDate == 0
NoUrl == 0
\* the url argument of discover_posts
StartUrl == 1

\* Python's None for blog_title, and a page without a <title> element
NoTitle == "<None>"
NoTitleTag == "<no title element>"
NoAuthor == "<None>"

Parsers == {"CedarDB", "TigerBeetle", "Sirupsen", "Generic"}

IndexUrls == 1..(max_pages + ExtraUrls)
PostUrls == 1..NumPostUrls
Dates == 1..MaxDate
Chars == 1..NumChars
\* titles of one character, and those longer by one that start with character 1
Titles == {<<c>> : c \in Chars} \cup {<<1, c>> : c \in Chars}
\* title and date a post may be listed with during a crawl: two different
\* listings are enough there, the crawl compares URLs only
CrawlMeta == {<<<<1>>, NoDate>>, <<<<2>>, 1>>}
\* what the <title> element of an index page may hold after strip()
PageTitles == {NoTitleTag, "", "My Blog"}
\* what parse_post may return: str(tag) of a container or of <body>, never ""
Contents == {"<article>..</article>", "<body>..</body>"}

\* base.py:8-16  BlogPost as parse_index builds it (author and content unset)
BlogPost(t, u, d) ==
    [title |-> t, url |-> u, date |-> d, author |-> NoAuthor, content_html |-> ""]

IndexPosts == {BlogPost(m[1], u, m[2]) : m \in CrawlMeta, u \in PostUrls}
\* a hydrated post as cli.py:115 keeps it; in a list the k-th has URL k
HydratedPost(t, u, d) == [BlogPost(t, u, d) EXCEPT !.content_html = "<article>..</article>"]
SortMeta == Titles \X ({NoDate} \cup Dates)
SortList(n, m) == [k \in 1..n |-> HydratedPost(m[k][1], k, m[k][2])]

Range(s) == {s[k] : k \in 1..Len(s)}
Min(S) == CHOOSE x \in S : \A y \in S : x <= y


\* ------------------------------------------------- ordering (base.py:18-26)
\* Python's str.__lt__: lexicographic by code point, a proper prefix is smaller
RECURSIVE StrLt(_, _)
StrLt(s, t) ==
    IF t = <<>> THEN FALSE
    ELSE IF s = <<>> THEN TRUE
    ELSE IF Head(s) # Head(t) THEN Head(s) < Head(t)
    ELSE StrLt(Tail(s), Tail(t))

\* a date counts as later than itself
LaterOrSame(date, other_date) == date >= other_date

\* base.py:26  self.date > other.date
Later(date, other_date) == date > other_date

\* the dates compared the other way round (oldest first)
PostLtOldestFirst(self, other) ==
    IF self.date = NoDate /\ other.date = NoDate THEN StrLt(self.title, other.title)
    ELSE IF self.date = NoDate THEN FALSE
    ELSE IF other.date = NoDate THEN TRUE
    ELSE self.date < other.date

\* BlogPost.__lt__(self, other)
PostLt(self, other) ==
    IF self.date = NoDate /\ other.date = NoDate THEN StrLt(self.title, other.title)
    ELSE IF self.date = NoDate THEN FALSE
    ELSE IF other.date = NoDate THEN TRUE
    ELSE Later(self.date, other.date)

\* sorted(posts) as CPython's list sort runs it on a list shorter than 64
\* elements: count_run finds the leading run (non-descending, or strictly
\* descending and then reversed), binarysort inserts the rest one by one.
\* Only ISLT(x, y) = x.__lt__(y) is ever asked.
Reverse(s) == [k \in 1..Len(s) |-> s[Len(s) + 1 - k]]

CountRun(s) ==
    LET descending == PostLt(s[2], s[1])
        n == CHOOSE m \in 2..Len(s) :
                 /\ \A k \in 2..m : PostLt(s[k], s[k-1]) = descending
                 /\ (m < Len(s) => PostLt(s[m+1], s[m]) # descending)
    IN  [n |-> n, descending |-> descending]

\* binary search of binarysort: the insertion point of pivot in s[l+1..r]
RECURSIVE BinSearch(_, _, _, _)
BinSearch(s, pivot, l, r) ==
    IF l >= r THEN l
    ELSE LET p == l + ((r - l) \div 2)
         IN  IF PostLt(pivot, s[p + 1])
             THEN BinSearch(s, pivot, l, p)
             ELSE BinSearch(s, pivot, p + 1, r)

\* binarysort(lo, hi, start): s[1..start] is sorted, insert s[start+1..]
RECURSIVE BinarySort(_, _)
BinarySort(s, start) ==
    IF start >= Len(s) THEN s
    ELSE LET pivot == s[start + 1]
             l == BinSearch(s, pivot, 0, start)
             moved == SubSeq(s, 1, l) \o <<pivot>> \o SubSeq(s, l + 1, start)
                      \o SubSeq(s, start + 2, Len(s))
         IN  BinarySort(moved, start + 1)

\* document.py:891  sorted_posts = sorted(posts)
Sorted(s) ==
    IF Len(s) < 2 THEN s
    ELSE LET run == CountRun(s)
             lead == SubSeq(s, 1, run.n)
             rest == SubSeq(s, run.n + 1, Len(s))
             s1 == (IF run.descending THEN Reverse(lead) ELSE lead) \o rest
         IN  BinarySort(s1, run.n)


\* ------------------------------------------------------------------ state
VARIABLES
    pc,              \* position of main / discover_posts
    parser,          \* scraper.py:99-100  the parser in use
    all_posts,       \* scraper.py:102
    visited_urls,    \* scraper.py:103
    pages_to_visit,  \* scraper.py:104
    blog_title,      \* scraper.py:105
    pages_visited,   \* scraper.py:107
    current_url,     \* scraper.py:111
    existing_urls,   \* scraper.py:133
    posts_left,      \* items of `posts` (scraper.py:130) the for loop has not reached yet
    fetch_count,     \* history: calls of fetch_url made by discover_posts
    fetched_urls,    \* history: index URLs fetch_url was called with
    refetched,       \* history: some index URL was fetched a second time
    any_ok,          \* history: some index page was fetched successfully
    first_title,     \* history: get_blog_title of the first page fetched successfully
    last_merge,      \* history: what the last iteration of the merge loop did
    last_fetch,      \* history: how the last fetch_url of an index page ended
    last_link,       \* history: the kind of next-page link the last page parsed held
    base_arg,        \* history: the base_url argument of the last parse_index call
    posts,           \* cli.py:80   (the list object all_posts, mutated by hydration)
    cli_parser,      \* cli.py:80
    cli_title,       \* cli.py:80
    i,               \* cli.py:98   1-based index of the post the loop is at
    failed_posts,    \* cli.py:97   (indices of the failed posts)
    attempts,        \* history: fetch attempts made per post of `posts`
    outcome,         \* history: how the fetch of each post of `posts` ended
    successful_posts,\* cli.py:115
    sorted_posts,    \* document.py:891
    generate_calls,  \* history: calls of document.generate_pdf
    post_sections,   \* document.py:907  (url and content of every section)
    netloc,          \* scraper.py:47   urlparse(url).netloc, in get_parser
    html,            \* the page handed to a parser's parse_post
    content_html,    \* what that parse_post returned
    anchors,         \* scraper.py:171  soup.find_all("a", href=True)
    current_page,    \* scraper.py:165  the /page/N/ number of current_url
    found_link,      \* scraper.py:140  what _find_pagination_link returned
    index_links,     \* the anchors of the index page handed to parse_index
    index_posts,     \* what that parse_index returned
    link_chain,      \* generic.py:103  the link handed to _find_date_near_link, with
                     \*                 its ancestors and their siblings
    near_date,       \* what that _find_date_near_link returned
    text_arg,        \* document.py:59  the string handed to normalize_text
    normalized,      \* what that normalize_text returned
    renormalized,    \* what normalize_text returned for its own result
    cleaned,         \* document.py:914  what clean_html_content returned
    lt_posts,        \* base.py:18  the posts __lt__ is tried on
    lt_result        \* what __lt__ returned for each pair of them

crawlVars == <<parser, all_posts, visited_urls, pages_to_visit, blog_title,
               pages_visited, current_url, existing_urls, posts_left>>
histVars == <<fetch_count, fetched_urls, refetched, any_ok, first_title, last_merge,
              last_fetch, last_link, base_arg>>
cliVars == <<posts, cli_parser, cli_title, i, failed_posts, attempts, outcome,
             successful_posts, sorted_posts, generate_calls, post_sections>>
dateVars == <<link_chain, near_date>>
textVars == <<text_arg, normalized, renormalized>>
cleanVars == <<cleaned>>
ltVars == <<lt_posts, lt_result>>
extraVars == <<dateVars, textVars, cleanVars, ltVars>>
unitVars == <<netloc, html, content_html, anchors, current_page, found_link,
              index_links, index_posts, extraVars>>
vars == <<pc, crawlVars, histVars, cliVars, unitVars>>

\* --------------------------------------------------- discover_posts helpers
\* the loop test with the ceiling off by one
LoopCondOffByOne(queue, visited_count) == queue # <<>> /\ visited_count <= max_pages

\* scraper.py:110  while pages_to_visit and pages_visited < max_pages
LoopCond(queue, visited_count) == queue # <<>> /\ visited_count < max_pages

\* base.py:67-74 and the overrides cedardb.py:137, tigerbeetle.py:110,
\* sirupsen.py:132: title of the blog as the parser reads it off a page
GetBlogTitle(p, page_title) ==
    CASE p = "CedarDB" -> "CedarDB Engineering Blog"
      [] p = "TigerBeetle" -> "TigerBeetle Engineering Blog"
      [] p = "Sirupsen" -> "Simon Eskildsen's Blog"
      [] OTHER -> IF page_title = NoTitleTag THEN "Engineering Blog" ELSE page_title

\* the title taken from every page fetched
ResolveTitleEveryPage(title, p, page_title) == GetBlogTitle(p, page_title)

\* scraper.py:125-126  if blog_title is None: blog_title = parser.get_blog_title(html)
ResolveTitle(title, p, page_title) ==
    IF title = NoTitle THEN GetBlogTitle(p, page_title) ELSE title

\* the return value without the placeholder
TitleNoDefault(title) == title

\* scraper.py:146  blog_title or "Blog"
TitleOrDefault(title) == IF title = NoTitle \/ title = "" THEN "Blog" ELSE title

\* scraper.py:135  if post.url not in existing_urls
IsNewPost(post, existing) == post.url \notin existing

\* the URL of an appended post not remembered
AddUrlForgotten(existing, url) == existing

\* scraper.py:137  existing_urls.add(post.url)
AddUrl(existing, url) == existing \cup {url}

\* the head of the queue read and left in the queue
PopLeavesHead(queue) == queue

\* scraper.py:111  pages_to_visit.pop(0): the queue it leaves
PopFirst(queue) == Tail(queue)

\* the new post put in front of the others
AppendPostInFront(ps, post) == <<post>> \o ps

\* scraper.py:136  all_posts.append(post)
AppendPost(ps, post) == Append(ps, post)

\* the popped URL not marked as visited
MarkVisitedForgotten(visited, url) == visited

\* scraper.py:116  visited_urls.add(current_url)
MarkVisited(visited, url) == visited \cup {url}

\* a link enqueued whether or not its URL was visited
ShouldEnqueueVisitedToo(next_page_url, visited) == next_page_url # NoUrl

\* scraper.py:143  if next_page_url and next_page_url not in visited_urls
ShouldEnqueue(next_page_url, visited) ==
    next_page_url # NoUrl /\ next_page_url \notin visited

\* The next-page link _find_pagination_link may return for a page: none, any
\* URL already visited (the page itself included), or an unvisited one.  All
\* unvisited URLs behave alike, so the least stands for them.
NextLinks(visited) ==
    {NoUrl} \cup visited
        \cup (IF IndexUrls \subseteq visited THEN {} ELSE {Min(IndexUrls \ visited)})

\* history: does the link lead nowhere, back to a page already fetched, or on
LinkKind(next_page_url, fetched) ==
    IF next_page_url = NoUrl THEN "none"
    ELSE IF next_page_url \in fetched THEN "back" ELSE "fresh"

\* parse_index handed the URL of the page being parsed
ParseIndexBaseCurrent(url, page_url) == page_url

\* scraper.py:108 and 130  base_url = url ... parser.parse_index(html, base_url)
ParseIndexBase(url, page_url) == url

\* the functions modelled on their own take no part in a run of main
DateIdle ==
    /\ link_chain = <<>>
    /\ near_date = <<>>
TextIdle ==
    /\ text_arg = <<>>
    /\ normalized = <<>>
    /\ renormalized = <<>>
CleanIdle == cleaned = <<>>
LtIdle ==
    /\ lt_posts = <<>>
    /\ lt_result = <<>>
ExtraIdle == DateIdle /\ TextIdle /\ CleanIdle /\ LtIdle

UnitIdle ==
    /\ ExtraIdle
    /\ netloc = <<>>
    /\ html = <<>>
    /\ content_html = <<>>
    /\ anchors = <<>>
    /\ current_page = 0
    /\ found_link = NoUrl
    /\ index_links = <<>>
    /\ index_posts = <<>>

\* ------------------------------------------------------------------- Init
\* scraper.py:99-108 on entry of discover_posts, called from cli.py:80
Init ==
    /\ pc = "queued"
    /\ parser \in Parsers
    /\ all_posts = <<>>
    /\ visited_urls = {}
    /\ pages_to_visit = <<StartUrl>>
    /\ blog_title = NoTitle
    /\ pages_visited = 0
    /\ current_url = NoUrl
    /\ existing_urls = {}
    /\ posts_left = 0
    /\ fetch_count = 0
    /\ fetched_urls = {}
    /\ refetched = FALSE
    /\ any_ok = FALSE
    /\ first_title = NoTitle
    /\ last_merge = "none"
    /\ last_fetch = "none"
    /\ last_link = "none"
    /\ base_arg = NoUrl
    /\ posts = <<>>
    /\ cli_parser = "<unset>"
    /\ cli_title = "<unset>"
    /\ i = 0
    /\ failed_posts = <<>>
    /\ attempts = <<>>
    /\ outcome = <<>>
    /\ successful_posts = <<>>
    /\ sorted_posts = <<>>
    /\ generate_calls = 0
    /\ post_sections = <<>>
    /\ UnitIdle

\* ------------------------------------------------- discover_posts actions
\* scraper.py:110-117  loop test, pop, skip a visited URL, mark and count
Visit ==
    /\ pc = "queued"
    /\ LoopCond(pages_to_visit, pages_visited)
    /\ current_url' = Head(pages_to_visit)
    /\ pages_to_visit' = PopFirst(pages_to_visit)
    /\ IF Head(pages_to_visit) \in visited_urls
       THEN /\ pc' = "queued"
            /\ UNCHANGED <<visited_urls, pages_visited>>
       ELSE /\ pc' = "fetching"
            /\ visited_urls' = MarkVisited(visited_urls, Head(pages_to_visit))
            /\ pages_visited' = pages_visited + 1
    /\ UNCHANGED <<parser, all_posts, blog_title, existing_urls, posts_left>>
    /\ UNCHANGED <<histVars, cliVars, unitVars>>

\* history of a call fetch_url(current_url)
NoteFetch ==
    /\ fetch_count' = fetch_count + 1
    /\ fetched_urls' = fetched_urls \cup {current_url}
    /\ refetched' = (refetched \/ current_url \in fetched_urls)

\* the ScraperError of an index page not caught: it reaches cli.py:143-145
FetchFailRaises ==
    /\ pc = "fetching"
    /\ NoteFetch
    /\ last_fetch' = "failed"
    /\ pc' = "exit_error"
    /\ UNCHANGED <<any_ok, first_title, last_merge, last_link, base_arg>>
    /\ UNCHANGED <<crawlVars, cliVars, unitVars>>

\* scraper.py:119-122  fetch_url raises ScraperError: continue
FetchFail ==
    /\ pc = "fetching"
    /\ NoteFetch
    /\ last_fetch' = "failed"
    /\ pc' = "queued"
    /\ UNCHANGED <<any_ok, first_title, last_merge, last_link, base_arg>>
    /\ UNCHANGED <<crawlVars, cliVars, unitVars>>

\* scraper.py:120-133  fetch_url returns html: title, parse_index, existing_urls
FetchOk ==
    /\ pc = "fetching"
    /\ NoteFetch
    /\ \E page_title \in PageTitles :
          /\ blog_title' = ResolveTitle(blog_title, parser, page_title)
          /\ first_title' = IF any_ok THEN first_title
                            ELSE GetBlogTitle(parser, page_title)
    /\ any_ok' = TRUE
    /\ \E n \in 0..MaxPagePosts : posts_left' = n
    /\ existing_urls' = {all_posts[k].url : k \in 1..Len(all_posts)}
    /\ last_merge' = "none"
    /\ last_fetch' = "ok"
    /\ base_arg' = ParseIndexBase(StartUrl, current_url)
    /\ pc' = "parsing"
    /\ UNCHANGED last_link
    /\ UNCHANGED <<parser, all_posts, visited_urls, pages_to_visit, pages_visited,
                   current_url>>
    /\ UNCHANGED <<cliVars, unitVars>>


\* scraper.py:134-137  one iteration of `for post in posts`.  The list parse_index
\* returned is arbitrary (a parser may repeat a URL), so its next item is any post.
MergePost ==
    /\ pc = "parsing"
    /\ posts_left > 0
    /\ \E post \in IndexPosts :
          IF IsNewPost(post, existing_urls)
          THEN /\ all_posts' = AppendPost(all_posts, post)
               /\ existing_urls' = AddUrl(existing_urls, post.url)
               /\ last_merge' = "added"
          ELSE /\ UNCHANGED <<all_posts, existing_urls>>
               /\ last_merge' = "duplicate"
    /\ posts_left' = posts_left - 1
    /\ UNCHANGED pc
    /\ UNCHANGED <<parser, visited_urls, pages_to_visit, blog_title, pages_visited,
                   current_url>>
    /\ UNCHANGED <<fetch_count, fetched_urls, refetched, any_ok, first_title,
                   last_fetch, last_link, base_arg>>
    /\ UNCHANGED <<cliVars, unitVars>>

\* scraper.py:139-144  find the next-page link, enqueue it unless visited
Paginate ==
    /\ pc = "parsing"
    /\ posts_left = 0
    /\ \E next_page_url \in NextLinks(visited_urls) :
          /\ pages_to_visit' = IF ShouldEnqueue(next_page_url, visited_urls)
                               THEN Append(pages_to_visit, next_page_url)
                               ELSE pages_to_visit
          /\ last_link' = LinkKind(next_page_url, fetched_urls)
    /\ pc' = "queued"
    /\ UNCHANGED <<parser, all_posts, visited_urls, blog_title, pages_visited,
                   current_url, existing_urls, posts_left>>
    /\ UNCHANGED <<fetch_count, fetched_urls, refetched, any_ok, first_title,
                   last_merge, last_fetch, base_arg>>
    /\ UNCHANGED <<cliVars, unitVars>>

\* scraper.py:146 and cli.py:80  return all_posts, parser, blog_title or "Blog"
Return ==
    /\ pc = "queued"
    /\ ~LoopCond(pages_to_visit, pages_visited)
    /\ pc' = "returned"
    /\ posts' = all_posts
    /\ cli_parser' = parser
    /\ cli_title' = TitleOrDefault(blog_title)
    /\ UNCHANGED <<i, failed_posts, attempts, outcome, successful_posts, sorted_posts,
                   generate_calls, post_sections>>
    /\ UNCHANGED <<crawlVars, histVars, unitVars>>

\* ---------------------------------------------------------- main (cli.py)
\* discover_posts has returned: its locals and the history of the run go
DropCrawlFrame ==
    /\ all_posts' = <<>>
    /\ visited_urls' = {}
    /\ pages_to_visit' = <<>>
    /\ blog_title' = NoTitle
    /\ pages_visited' = 0
    /\ current_url' = NoUrl
    /\ existing_urls' = {}
    /\ posts_left' = 0
    /\ fetch_count' = 0
    /\ fetched_urls' = {}
    /\ refetched' = FALSE
    /\ any_ok' = FALSE
    /\ first_title' = NoTitle
    /\ last_merge' = "none"
    /\ last_fetch' = "none"
    /\ last_link' = "none"
    /\ base_arg' = NoUrl
    /\ UNCHANGED parser

\* cli.py:82  if not posts
NoPosts(ps) == ps = <<>>

\* every post handed on, hydrated or not
IsSuccessfulAny(p) == TRUE

\* cli.py:115  [p for p in posts if p.content_html]
IsSuccessful(p) == p.content_html # ""

\* the posts with content listed in the order their fetches ended, latest first
SuccessfulPostsLatestFirst(ps) == Reverse(SelectSeq(ps, IsSuccessful))

\* cli.py:115  the comprehension runs over posts: discovery order is kept
SuccessfulPosts(ps) == SelectSeq(ps, IsSuccessful)

\* scraper.py:232  post.content_html = parser.parse_post(html, post.url)
StoreContent(ps, k, content) == [ps EXCEPT ![k].content_html = content]

\* cli.py:82-86  no posts: report and sys.exit(1)
NoPostsFound ==
    /\ pc = "returned"
    /\ NoPosts(posts)
    /\ pc' = "exit_no_posts"
    /\ DropCrawlFrame
    /\ UNCHANGED <<cliVars, unitVars>>

\* cli.py:88-98  posts found: start the fetch loop
StartHydration ==
    /\ pc = "returned"
    /\ ~NoPosts(posts)
    /\ pc' = "hydrating"
    /\ i' = 1
    /\ failed_posts' = <<>>
    /\ attempts' = [k \in 1..Len(posts) |-> 0]
    /\ outcome' = [k \in 1..Len(posts) |-> "none"]
    /\ DropCrawlFrame
    /\ UNCHANGED <<posts, cli_parser, cli_title, successful_posts, sorted_posts,
                   generate_calls, post_sections>>
    /\ UNCHANGED unitVars

\* cli.py:98-102,108 with scraper.py:231-232  the fetch succeeds
HydrateOk ==
    /\ pc = "hydrating"
    /\ i <= Len(posts)
    /\ \E content \in Contents : posts' = StoreContent(posts, i, content)
    /\ attempts' = [attempts EXCEPT ![i] = @ + 1]
    /\ outcome' = [outcome EXCEPT ![i] = "ok"]
    /\ i' = i + 1
    /\ UNCHANGED pc
    /\ UNCHANGED <<cli_parser, cli_title, failed_posts, successful_posts, sorted_posts,
                   generate_calls, post_sections>>
    /\ UNCHANGED <<crawlVars, histVars, unitVars>>

\* the ScraperError of a post caught outside the loop (cli.py:143-145)
HydrateFailAborts ==
    /\ pc = "hydrating"
    /\ i <= Len(posts)
    /\ attempts' = [attempts EXCEPT ![i] = @ + 1]
    /\ outcome' = [outcome EXCEPT ![i] = "failed"]
    /\ pc' = "exit_error"
    /\ UNCHANGED <<posts, cli_parser, cli_title, i, failed_posts, successful_posts,
                   sorted_posts, generate_calls, post_sections>>
    /\ UNCHANGED <<crawlVars, histVars, unitVars>>

\* cli.py:98-108 with scraper.py:231  fetch_url raises ScraperError
HydrateFail ==
    /\ pc = "hydrating"
    /\ i <= Len(posts)
    /\ failed_posts' = Append(failed_posts, i)
    /\ attempts' = [attempts EXCEPT ![i] = @ + 1]
    /\ outcome' = [outcome EXCEPT ![i] = "failed"]
    /\ i' = i + 1
    /\ UNCHANGED pc
    /\ UNCHANGED <<posts, cli_parser, cli_title, successful_posts, sorted_posts,
                   generate_calls, post_sections>>
    /\ UNCHANGED <<crawlVars, histVars, unitVars>>

\* the test for content made inside the loop, before every post was tried
CollectInsideLoop ==
    /\ pc = "hydrating"
    /\ i > 1
    /\ successful_posts' = SuccessfulPosts(posts)
    /\ pc' = IF SuccessfulPosts(posts) = <<>> THEN "exit_no_content" ELSE "generating"
    /\ UNCHANGED <<posts, cli_parser, cli_title, i, failed_posts, attempts, outcome,
                   sorted_posts, generate_calls, post_sections>>
    /\ UNCHANGED <<crawlVars, histVars, unitVars>>

\* cli.py:110-120  the loop is over: keep the posts with content, exit if none
Collect ==
    /\ pc = "hydrating"
    /\ i > Len(posts)
    /\ successful_posts' = SuccessfulPosts(posts)
    /\ pc' = IF SuccessfulPosts(posts) = <<>> THEN "exit_no_content" ELSE "generating"
    /\ UNCHANGED <<posts, cli_parser, cli_title, i, failed_posts, attempts, outcome,
                   sorted_posts, generate_calls, post_sections>>
    /\ UNCHANGED <<crawlVars, histVars, unitVars>>

\* The four passes build_html_document makes over the content of a post.  What
\* each rewrites is of no concern here, only which ran and in which order: a
\* content is the extraction of parse_post followed by the passes it went through.
CleanHtmlContent(content) == Append(content, "clean_html_content")
ResolveRelativeUrls(content, url) == Append(content, "resolve_relative_urls")
ConvertLatexMath(content) == Append(content, "convert_latex_math")
NormalizeText(content) == Append(content, "normalize_text")

\* the normalizer run on the extraction, the cleaner last
SectionContentNormalizedFirst(post) ==
    CleanHtmlContent(
        ConvertLatexMath(
            ResolveRelativeUrls(NormalizeText(<<post.content_html>>), post.url)))

\* document.py:913-917  the content of the section of one post
SectionContent(post) ==
    NormalizeText(
        ConvertLatexMath(
            ResolveRelativeUrls(CleanHtmlContent(<<post.content_html>>), post.url)))

\* document.py:907-935  one section per post of sorted_posts, in that order
PostSections(ps) ==
    [k \in 1..Len(ps) |-> [url |-> ps[k].url, content |-> SectionContent(ps[k])]]

\* cli.py:128, document.py:981, 891 and 907-935  generate_pdf(successful_posts, ...)
Generate ==
    /\ pc = "generating"
    /\ sorted_posts' = Sorted(successful_posts)
    /\ post_sections' = PostSections(Sorted(successful_posts))
    /\ generate_calls' = generate_calls + 1
    /\ pc' = "generated"
    /\ UNCHANGED <<posts, cli_parser, cli_title, i, failed_posts, attempts, outcome,
                   successful_posts>>
    /\ UNCHANGED <<crawlVars, histVars, unitVars>>

CliNext == NoPostsFound \/ StartHydration \/ HydrateOk \/ HydrateFail \/ Collect
           \/ Generate

CrawlNext == Visit \/ FetchFail \/ FetchOk \/ MergePost \/ Paginate \/ Return

Next == CrawlNext \/ CliNext

Spec == Init /\ [][Next]_vars

\* ------------------------------------------------- sorted() on its own
\* main at cli.py:128, every post hydrated: the list handed to generate_pdf is
\* any list of up to MaxSortLen posts with distinct URLs
SortInit ==
    /\ pc = "generating"
    /\ parser = "Generic"
    /\ all_posts = <<>>
    /\ visited_urls = {}
    /\ pages_to_visit = <<>>
    /\ blog_title = NoTitle
    /\ pages_visited = 0
    /\ current_url = NoUrl
    /\ existing_urls = {}
    /\ posts_left = 0
    /\ fetch_count = 0
    /\ fetched_urls = {}
    /\ refetched = FALSE
    /\ any_ok = FALSE
    /\ first_title = NoTitle
    /\ last_merge = "none"
    /\ last_fetch = "none"
    /\ last_link = "none"
    /\ base_arg = NoUrl
    /\ \E n \in 1..MaxSortLen : \E m \in [1..n -> SortMeta] : posts = SortList(n, m)
    /\ cli_parser = "Generic"
    /\ cli_title = "Blog"
    /\ i = Len(posts) + 1
    /\ failed_posts = <<>>
    /\ attempts = [k \in 1..Len(posts) |-> 1]
    /\ outcome = [k \in 1..Len(posts) |-> "ok"]
    /\ successful_posts = posts
    /\ sorted_posts = <<>>
    /\ generate_calls = 0
    /\ post_sections = <<>>
    /\ UnitIdle

SortNext == Generate

SpecSort == SortInit /\ [][SortNext]_vars


\* ------------------------------------------- functions on their own
\* main is not running: the variables of the crawl and of the fetch loop rest
crawlLocals == <<all_posts, visited_urls, pages_to_visit, blog_title, pages_visited,
                 current_url, existing_urls, posts_left>>

FrameIdle ==
    /\ all_posts = <<>>
    /\ visited_urls = {}
    /\ pages_to_visit = <<>>
    /\ blog_title = NoTitle
    /\ pages_visited = 0
    /\ current_url = NoUrl
    /\ existing_urls = {}
    /\ posts_left = 0
    /\ fetch_count = 0
    /\ fetched_urls = {}
    /\ refetched = FALSE
    /\ any_ok = FALSE
    /\ first_title = NoTitle
    /\ last_merge = "none"
    /\ last_fetch = "none"
    /\ last_link = "none"
    /\ base_arg = NoUrl
    /\ posts = <<>>
    /\ cli_parser = "<unset>"
    /\ cli_title = "<unset>"
    /\ i = 0
    /\ failed_posts = <<>>
    /\ attempts = <<>>
    /\ outcome = <<>>
    /\ successful_posts = <<>>
    /\ sorted_posts = <<>>
    /\ generate_calls = 0
    /\ post_sections = <<>>

\* ------------------------------------------------------------ get_parser
\* A host name is a sequence of pieces whose concatenation is the string; "www."
\* is one piece and no other piece holds a "w", so the occurrences of the
\* substring "www." in the string are exactly the pieces "www.".
NetlocPieces == {"www.", "blog.", "cedardb.", "tigerbeetle.", "sirupsen.", "com"}

\* str.replace(old, ""): every occurrence of the piece goes
Replace(s, old) ==
    LET Keep(piece) == piece # old
    IN  SelectSeq(s, Keep)

\* scraper.py:18-22  PARSER_REGISTRY.get(domain, default)
RegistryGet(domain, default) ==
    IF domain = <<"cedardb.", "com">> THEN "CedarDB"
    ELSE IF domain = <<"tigerbeetle.", "com">> THEN "TigerBeetle"
    ELSE IF domain = <<"sirupsen.", "com">> THEN "Sirupsen"
    ELSE default

\* scraper.py:48-53  get_parser, from netloc on
GetParser(host) == RegistryGet(Replace(host, "www."), "Generic")

\* get_parser is called with a URL of any host of up to MaxNetlocLen pieces
ParserInit ==
    /\ pc = "get_parser"
    /\ parser = "<unset>"
    /\ FrameIdle
    /\ \E n \in 1..MaxNetlocLen : netloc \in [1..n -> NetlocPieces]
    /\ html = <<>>
    /\ content_html = <<>>
    /\ anchors = <<>>
    /\ current_page = 0
    /\ found_link = NoUrl
    /\ index_links = <<>>
    /\ index_posts = <<>>
    /\ ExtraIdle

\* scraper.py:39-53  get_parser(url)
GetParserCall ==
    /\ pc = "get_parser"
    /\ parser' = GetParser(netloc)
    /\ pc' = "got_parser"
    /\ UNCHANGED <<crawlLocals, histVars, cliVars, unitVars>>

ParserNext == GetParserCall

SpecParser == ParserInit /\ [][ParserNext]_vars

\* ------------------------------------------------------------ parse_post
\* A page is the sequence of the elements of its <body> (html5lib always
\* builds one); an element has a tag, the words of its class attribute and
\* child elements; it may also have an href (a sequence of pieces), an id, an
\* onclick attribute, a style (the set of its pieces) and text of its own (a
\* sequence of phrases).
Bare ==
    [tag |-> "", cls |-> {}, kids |-> <<>>, href |-> <<>>, id |-> "",
     onclick |-> FALSE, style |-> {}, text |-> <<>>]
Node(t, c, k) == [Bare EXCEPT !.tag = t, !.cls = c, !.kids = k]
Anchor(c, h) == [Bare EXCEPT !.tag = "a", !.cls = c, !.href = h]

\* the elements a top-level element may hold
Leaves ==
    {Node(t, {}, <<>>) : t \in {"nav", "script", "p", "h1"}}
        \cup {Node("div", {"author"}, <<>>)}
KidLists == {<<>>} \cup {<<l>> : l \in Leaves}

\* the top-level elements of a page
TopNodes ==
    {Node(t, {}, k) : t \in {"article", "main", "p", "nav", "header", "footer",
                              "aside", "script", "style"}, k \in KidLists}
        \cup {Node("div", c, k) : c \in {{}, {"post", "content"}, {"prose"}},
                                   k \in KidLists}

\* document order
RECURSIVE Preorder(_)
Preorder(elems) ==
    IF elems = <<>> THEN <<>>
    ELSE <<Head(elems)>> \o Preorder(Head(elems).kids) \o Preorder(Tail(elems))

\* soup.find(tag) and soup.find(tag, class_=...): the first element in document
\* order with the tag (and a class word among words, if any are given), or none
NoNode == Node("<None>", {}, <<>>)
FindFirst(nodes, tag, words) ==
    LET hits == {k \in 1..Len(nodes) :
                    /\ nodes[k].tag = tag
                    /\ (words # {} => nodes[k].cls \cap words # {})}
    IN  IF hits = {} THEN NoNode ELSE nodes[Min(hits)]

\* a class_=re.compile("(a|b|c)") test: some class word holds an alternative
ClassMatches(node, alternatives) == node.cls \cap alternatives # {}

\* tag.decompose() for every descendant with one of the tags or class words
RECURSIVE Decompose(_, _, _)
Decompose(elems, tags, words) ==
    IF elems = <<>> THEN <<>>
    ELSE IF Head(elems).tag \in tags \/ ClassMatches(Head(elems), words)
         THEN Decompose(Tail(elems), tags, words)
    ELSE <<[Head(elems) EXCEPT !.kids = Decompose(@, tags, words)]>>
             \o Decompose(Tail(elems), tags, words)

\* article.find("h1") then decompose: the first h1 in document order goes
RECURSIVE DropFirstH1(_)
DropFirstH1(elems) ==
    IF elems = <<>> THEN <<>>
    ELSE IF Head(elems).tag = "h1" THEN Tail(elems)
    ELSE IF FindFirst(Preorder(Head(elems).kids), "h1", {}) # NoNode
         THEN <<[Head(elems) EXCEPT !.kids = DropFirstH1(@)]>> \o Tail(elems)
    ELSE <<Head(elems)>> \o DropFirstH1(Tail(elems))

\* section.find_all("a", href=re.compile(r"/blog/")): the anchors among the
\* descendants whose href holds "/blog/"
BlogLinks(node) ==
    LET nodes == Preorder(node.kids)
    IN  {k \in 1..Len(nodes) :
            /\ nodes[k].tag = "a"
            /\ \E j \in 1..Len(nodes[k].href) : nodes[k].href[j] = "/blog/"}

\* a grid needs more than three links
IsLinkGridAboveThree(node) ==
    node.tag \in {"section", "div"} /\ Cardinality(BlogLinks(node)) > 3

\* cedardb.py:120-123  a section or div with three or more such links
IsLinkGrid(node) ==
    node.tag \in {"section", "div"} /\ Cardinality(BlogLinks(node)) >= 3

\* cedardb.py:120-124  every section or div, in document order, is decomposed
\* when it holds three or more links
RECURSIVE DropLinkGrids(_)
DropLinkGrids(elems) ==
    IF elems = <<>> THEN <<>>
    ELSE IF IsLinkGrid(Head(elems)) THEN DropLinkGrids(Tail(elems))
    ELSE <<[Head(elems) EXCEPT !.kids = DropLinkGrids(@)]>>
             \o DropLinkGrids(Tail(elems))

\* the class words with which a <div> counts as the article container
ContainerWords(p) ==
    IF p = "TigerBeetle" THEN {"content", "post", "article", "prose"}
    ELSE {"content", "post", "article"}

\* cedardb.py:91-95, tigerbeetle.py:84-88, sirupsen.py:94-98, generic.py:225-235
\* article, else main, else a <div> whose class matches
FindContainer(p, body) ==
    LET nodes == Preorder(body)
        article == FindFirst(nodes, "article", {})
        main == FindFirst(nodes, "main", {})
        div == FindFirst(nodes, "div", ContainerWords(p))
    IN  IF article # NoNode THEN article
        ELSE IF main # NoNode THEN main
        ELSE div

\* the tags each parser removes inside the container
ChromeTags(p) ==
    CASE p = "Generic" -> {"nav", "header", "footer", "aside", "script", "style"}
      [] p = "Sirupsen" -> {"nav", "header", "footer", "aside", "form"}
      [] OTHER -> {"nav", "header", "footer", "aside"}

\* the class words each parser removes inside the container
ChromeWords(p) ==
    CASE p = "CedarDB" -> {"author", "byline", "meta", "date", "listing", "button",
                           "cta", "start-now", "signup", "waitlist"}
      [] p = "TigerBeetle" -> {"author", "byline", "meta"}
      [] p = "Sirupsen" -> {"author", "byline", "meta", "subscribe", "newsletter",
                            "signup", "related", "also-like", "recommended"}
      [] p = "Generic" -> {}

\* cedardb.py:97-130, tigerbeetle.py:90-104, sirupsen.py:100-126, generic.py:237-241
PruneContainer(p, article) ==
    LET kept == Decompose(article.kids, ChromeTags(p), ChromeWords(p))
    IN  [article EXCEPT !.kids =
            CASE p = "Generic" -> kept
              [] p = "CedarDB" -> DropFirstH1(DropLinkGrids(kept))
              [] OTHER -> DropFirstH1(kept)]

\* cedardb.py:132-135, tigerbeetle.py:106-108, sirupsen.py:128-130: str(body);
\* generic.py:243-248: the body after nav, header, footer, aside, script, style
\* were removed
BodyFallback(p, body) ==
    IF p = "Generic"
    THEN Node("body", {}, Decompose(body, ChromeTags(p), {}))
    ELSE Node("body", {}, body)

\* parse_post(html, url) of parser p
ParsePost(p, body) ==
    IF FindContainer(p, body) # NoNode
    THEN PruneContainer(p, FindContainer(p, body))
    ELSE BodyFallback(p, body)

\* parse_post is called with any page of up to MaxBodyLen top-level elements
ParsePostInit ==
    /\ pc = "parse_post"
    /\ parser \in Parsers
    /\ FrameIdle
    /\ netloc = <<>>
    /\ \E n \in 1..MaxBodyLen : html \in [1..n -> TopNodes]
    /\ content_html = <<>>
    /\ anchors = <<>>
    /\ current_page = 0
    /\ found_link = NoUrl
    /\ index_links = <<>>
    /\ index_posts = <<>>
    /\ ExtraIdle

\* scraper.py:232 (the call), and the parse_post of the parser chosen
ParsePostCall ==
    /\ pc = "parse_post"
    /\ content_html' = ParsePost(parser, html)
    /\ pc' = "parsed"
    /\ UNCHANGED <<parser, crawlLocals, histVars, cliVars>>
    /\ UNCHANGED <<netloc, html, anchors, current_page, found_link, index_links,
                   index_posts, extraVars>>

ParsePostNext == ParsePostCall

SpecParsePost == ParsePostInit /\ [][ParsePostNext]_vars

\* Pages with link lists: an article (or a content <div>) holding a paragraph
\* and a holder of up to MaxLinks anchors, the holder either directly in the
\* container or inside a wrapping <div>.
AnchorKinds ==
    {Anchor({}, <<"/blog/", "post">>), Anchor({"listing"}, <<"/blog/", "post">>),
     Anchor({}, <<"/about">>)}
Holder(tag, links) == Node(tag, {"related"}, links)
LinkPage(container, tag, links, wrapped) ==
    LET inside == IF wrapped
                  THEN <<Node("p", {}, <<>>),
                         Node("div", {"wrap"}, <<Holder(tag, links)>>)>>
                  ELSE <<Node("p", {}, <<>>), Holder(tag, links)>>
    IN  <<IF container = "article" THEN Node("article", {}, inside)
          ELSE Node("div", {"content"}, inside)>>

\* parse_post of the CedarDB parser is called with a page with a link list
LinkPageInit ==
    /\ pc = "parse_post"
    /\ parser = "CedarDB"
    /\ FrameIdle
    /\ netloc = <<>>
    /\ \E container \in {"article", "div"}, tag \in {"div", "section", "ul"},
          n \in 2..MaxLinks, wrapped \in BOOLEAN :
          \E links \in [1..n -> AnchorKinds] :
              html = LinkPage(container, tag, links, wrapped)
    /\ content_html = <<>>
    /\ anchors = <<>>
    /\ current_page = 0
    /\ found_link = NoUrl
    /\ index_links = <<>>
    /\ index_posts = <<>>
    /\ ExtraIdle

SpecLinkPage == LinkPageInit /\ [][ParsePostNext]_vars

\* ------------------------------------------------------ clean_html_content
\* document.py:284-341  unwanted_patterns; a class word or an id of a page
\* here is one of the patterns or holds none of them
unwanted_patterns ==
    {"subscribe", "newsletter", "signup", "sign-up", "email-form", "mailchimp",
     "related", "you-might", "also-like", "recommended", "more-posts", "suggested",
     "read-more", "readmore", "more-from", "other-posts", "next-posts",
     "previous-posts", "share", "social", "twitter", "facebook", "linkedin",
     "author-bio", "author-info", "about-author", "post-author", "byline",
     "comment", "disqus", "prev-next", "pagination", "nav-post", "post-nav",
     "editor", "playground", "interactive", "code-runner", "run-button", "try-it",
     "demo-controls", "toolbar", "action-bar", "query-stats", "execution-stats",
     "cta", "call-to-action", "promo", "banner", "waitlist"}

\* document.py:398-411  unwanted_text_patterns; a phrase of a page here is one
\* of the patterns or holds none of them
unwanted_text_patterns ==
    {"subscribe", "subscribe to newsletter", "sign up", "you might also like",
     "read more in the", "read more in", "view all", "close editor", "run query",
     "query stats", "try it in", "sign up for our waitlist"}

\* document.py:471-482  action_patterns
action_patterns ==
    {"if you liked this", "consider subscribing", "subscribe to", "email updates",
     "sharing it on", "share this post", "follow me on", "here's a preview",
     "related post", "continue reading"}

\* document.py:510-512  the phrases of a related-post preview
preview_patterns == {"continue reading", "read more", "related:", "see also:"}

\* element.get_text(strip=True).lower(): the phrases of the element and of its
\* descendants, in document order
RECURSIVE GetTextOf(_)
RECURSIVE GetTextOfAll(_)
GetTextOf(node) == node.text \o GetTextOfAll(node.kids)
GetTextOfAll(elems) ==
    IF elems = <<>> THEN <<>>
    ELSE GetTextOf(Head(elems)) \o GetTextOfAll(Tail(elems))

\* len(text): a phrase has the length of its spelling, "essay" stands for a
\* passage of 400 characters
PhraseLen(phrase) ==
    CASE phrase = "essay" -> 400
      [] phrase \in {"title", "intro"} -> 5
      [] phrase \in {"subscribe", "read more"} -> 9
      [] phrase = "related post" -> 12
      [] phrase = "return-arrow" -> 1
      [] OTHER -> 7
RECURSIVE TextLen(_)
TextLen(phrases) ==
    IF phrases = <<>> THEN 0 ELSE PhraseLen(Head(phrases)) + TextLen(Tail(phrases))

\* only buttons are removed
InteractiveTagsButtonOnly == {"button"}

\* document.py:384  soup.find_all(['button', 'input'])
InteractiveTags == {"button", "input"}

\* document.py:499-527  a blockquote that is a styled card with a title-styled
\* first paragraph, or whose text holds a preview phrase
IsPreviewQuote(node) ==
    LET first_p == FindFirst(Preorder(node.kids), "p", {})
        text == GetTextOf(node)
        is_styled_card == {"border-left", "padding"} \subseteq node.style
        is_title_style ==
            /\ "font-weight" \in first_p.style
            /\ first_p.style \cap {"600", "bold"} # {}
    IN  /\ node.tag = "blockquote"
        /\ \/ first_p # NoNode /\ is_styled_card /\ is_title_style
           \/ \E k \in 1..Len(text) : text[k] \in preview_patterns

\* the test of each removal pass of clean_html_content
Unwanted(pass, node) ==
    CASE pass = "pattern" ->
             ClassMatches(node, unwanted_patterns) \/ node.id \in unwanted_patterns
      [] pass = "form" -> node.tag = "form"
      [] pass = "iframe" -> node.tag = "iframe"
      [] pass = "button" -> node.tag \in InteractiveTags
      [] pass = "onclick" -> node.onclick
      [] pass = "text" ->
             /\ node.tag \in {"div", "section", "aside", "p", "h1", "h2", "h3", "span"}
             /\ GetTextOf(node) # <<>>
             /\ GetTextOf(node)[1] \in unwanted_text_patterns
      [] pass = "action" ->
             /\ node.tag \in {"p", "div", "section"}
             /\ \E k \in 1..Len(GetTextOf(node)) : GetTextOf(node)[k] \in action_patterns
             /\ TextLen(GetTextOf(node)) < 300
      [] pass = "blockquote" -> IsPreviewQuote(node)

\* for element in soup.find_all(...): element.decompose() when the test of the
\* pass holds; the elements come in document order and one inside a removed
\* element is passed over
RECURSIVE RemoveAll(_, _)
RemoveAll(elems, pass) ==
    IF elems = <<>> THEN <<>>
    ELSE IF Unwanted(pass, Head(elems)) THEN RemoveAll(Tail(elems), pass)
    ELSE <<[Head(elems) EXCEPT !.kids = RemoveAll(@, pass)]>>
             \o RemoveAll(Tail(elems), pass)

\* the element at place n of the document order taken out with all it holds
RECURSIVE RemoveAt(_, _)
RemoveAt(elems, n) ==
    IF elems = <<>> THEN <<>>
    ELSE IF n = 1 THEN Tail(elems)
    ELSE LET inside == Len(Preorder(Head(elems).kids))
         IN  IF n - 1 <= inside
             THEN <<[Head(elems) EXCEPT !.kids = RemoveAt(@, n - 1)]>> \o Tail(elems)
             ELSE <<Head(elems)>> \o RemoveAt(Tail(elems), n - 1 - inside)

\* node appended to the element at place n of the document order
RECURSIVE AppendAt(_, _, _)
AppendAt(elems, n, node) ==
    IF elems = <<>> THEN <<>>
    ELSE IF n = 1
         THEN <<[Head(elems) EXCEPT !.kids = Append(@, node)]>> \o Tail(elems)
    ELSE LET inside == Len(Preorder(Head(elems).kids))
         IN  IF n - 1 <= inside
             THEN <<[Head(elems) EXCEPT !.kids = AppendAt(@, n - 1, node)]>>
                      \o Tail(elems)
             ELSE <<Head(elems)>> \o AppendAt(Tail(elems), n - 1 - inside, node)

Max(S) == CHOOSE x \in S : \A y \in S : y <= x

\* document.py:441-447  the back reference of a footnote: the first anchor with
\* a backref class, else the first with "#fnref" in its href, else the first
\* with the return arrow as its text; 0 when there is none
Backref(nodes) ==
    LET as == {k \in 1..Len(nodes) : nodes[k].tag = "a"}
        by_class == {k \in as : ClassMatches(nodes[k], {"footnote-backref", "backref"})}
        by_href == {k \in as : \E j \in 1..Len(nodes[k].href) :
                                  nodes[k].href[j] = "#fnref"}
        by_string == {k \in as : nodes[k].text = <<"return-arrow">>}
    IN  IF by_class # {} THEN Min(by_class)
        ELSE IF by_href # {} THEN Min(by_href)
        ELSE IF by_string # {} THEN Min(by_string)
        ELSE 0

\* document.py:449-457  the back reference is moved to the end of the last
\* paragraph of the footnote (the blank put before it is white space)
MoveBackref(li) ==
    LET nodes == Preorder(li.kids)
        backref == Backref(nodes)
        paragraphs == {k \in 1..Len(nodes) : nodes[k].tag = "p"}
        last_p == Max(paragraphs)
        place == IF backref < last_p
                 THEN last_p - Len(Preorder(<<nodes[backref]>>))
                 ELSE last_p
    IN  IF backref = 0 \/ paragraphs = {} THEN li
        ELSE [li EXCEPT !.kids = AppendAt(RemoveAt(@, backref), place, nodes[backref])]

\* document.py:440  for li in soup.find_all('li', id=... startswith('fn'))
FootnoteIds == {"fn-1", "fn1"}
RECURSIVE InlineBackrefs(_)
InlineBackrefs(elems) ==
    IF elems = <<>> THEN <<>>
    ELSE LET head == IF Head(elems).tag = "li" /\ Head(elems).id \in FootnoteIds
                     THEN MoveBackref(Head(elems))
                     ELSE Head(elems)
         IN  <<[head EXCEPT !.kids = InlineBackrefs(@)]>> \o InlineBackrefs(Tail(elems))

\* document.py:461-468  the empty paragraphs inside an element with a footnote
\* class are removed
RECURSIVE DropEmptyParagraphs(_, _)
DropEmptyParagraphs(elems, in_footnotes) ==
    IF elems = <<>> THEN <<>>
    ELSE IF /\ in_footnotes
            /\ Head(elems).tag = "p"
            /\ GetTextOf(Head(elems)) = <<>>
         THEN DropEmptyParagraphs(Tail(elems), in_footnotes)
    ELSE LET below ==
                 \/ in_footnotes
                 \/ ClassMatches(Head(elems),
                                 {"footnote", "footnotes", "footnote-backref"})
         IN  <<[Head(elems) EXCEPT !.kids = DropEmptyParagraphs(@, below)]>>
                 \o DropEmptyParagraphs(Tail(elems), in_footnotes)

\* document.py:270-529  clean_html_content(html_content): html5lib puts the
\* fragment into the <body> of a document, the passes run in this order and
\* the document is returned (given here by the elements of its <body>)
clean_html_content(body) ==
    LET patterns == RemoveAll(body, "pattern")
        forms == RemoveAll(patterns, "form")
        iframes == RemoveAll(forms, "iframe")
        buttons == RemoveAll(iframes, "button")
        onclicks == RemoveAll(buttons, "onclick")
        texts == RemoveAll(onclicks, "text")
        first_h1 == DropFirstH1(texts)
        footnotes == DropEmptyParagraphs(InlineBackrefs(first_h1), FALSE)
        actions == RemoveAll(footnotes, "action")
    IN  RemoveAll(actions, "blockquote")

\* the elements an article may hold
Phrase(node, phrase) == [node EXCEPT !.text = <<phrase>>]
Blocks ==
    {Phrase(Node("h1", {}, <<>>), "title"),
     Phrase(Node("h2", {}, <<>>), "subscribe"),
     Phrase(Node("p", {}, <<>>), "intro"),
     Phrase(Node("p", {}, <<>>), "related post"),
     Phrase(Node("p", {}, <<Node("input", {}, <<>>)>>), "essay"),
     Node("form", {}, <<Node("input", {}, <<>>)>>),
     Node("iframe", {"share"}, <<>>),
     Node("div", {}, <<Node("button", {}, <<>>), Phrase(Node("h1", {}, <<>>), "title")>>),
     [Phrase(Node("span", {}, <<>>), "intro") EXCEPT !.onclick = TRUE],
     [Node("div", {}, <<>>) EXCEPT !.id = "comment"],
     [Node("li", {}, <<Phrase(Node("p", {}, <<>>), "intro"),
                       Phrase(Anchor({"footnote-backref"}, <<"#fnref">>),
                              "return-arrow")>>)
         EXCEPT !.id = "fn-1"],
     Node("div", {"footnotes"}, <<Node("p", {}, <<>>)>>),
     [Phrase(Node("blockquote", {}, <<>>), "read more") EXCEPT
         !.style = {"border-left", "padding"}]}

\* a post page: a container with up to MaxBlocks elements
PostPage(container, blocks) ==
    <<IF container = "div" THEN Node("div", {"content"}, blocks)
      ELSE Node(container, {}, blocks)>>

\* a post is fetched and its page handed to parse_post of any parser
CleanInit ==
    /\ pc = "parse_post"
    /\ parser \in Parsers
    /\ FrameIdle
    /\ netloc = <<>>
    /\ \E container \in {"article", "div", "section"}, n \in 1..MaxBlocks :
          \E blocks \in [1..n -> Blocks] : html = PostPage(container, blocks)
    /\ content_html = <<>>
    /\ anchors = <<>>
    /\ current_page = 0
    /\ found_link = NoUrl
    /\ index_links = <<>>
    /\ index_posts = <<>>
    /\ ExtraIdle

\* document.py:914  content = clean_html_content(post.content_html); str(body)
\* parses to that body again, str(article) to a body that holds the article
CleanCall ==
    /\ pc = "parsed"
    /\ cleaned' = clean_html_content(IF content_html.tag = "body"
                                     THEN content_html.kids
                                     ELSE <<content_html>>)
    /\ pc' = "cleaned"
    /\ UNCHANGED <<parser, crawlLocals, histVars, cliVars>>
    /\ UNCHANGED <<netloc, html, content_html, anchors, current_page, found_link,
                   index_links, index_posts, dateVars, textVars, ltVars>>

CleanNext == ParsePostCall \/ CleanCall

SpecClean == CleanInit /\ [][CleanNext]_vars

\* ------------------------------------------------ _find_pagination_link
\* The text of an anchor is a sequence of pieces (words, a blank, an arrow, a
\* backslash); a regular expression is a sequence of items, each a set of
\* pieces with a quantifier: "1" (once), "?" (optional) or "*" (any number).
Item(set, q) == [set |-> set, q |-> q]
Blank == {" "}

\* str.lower() piece by piece
Lower(text) ==
    [k \in 1..Len(text) |->
        CASE text[k] = "Next" -> "next"
          [] text[k] = "Page" -> "page"
          [] text[k] = "Older" -> "older"
          [] text[k] = "Posts" -> "posts"
          [] OTHER -> text[k]]

\* len(text) in characters
RECURSIVE StrLen(_)
StrLen(text) ==
    IF text = <<>> THEN 0
    ELSE (CASE Head(text) \in {" ", "→", "\\", "s"} -> 1
            [] Head(text) \in {"next", "page", "more", "load", "post", "home"} -> 4
            [] Head(text) \in {"older", "posts"} -> 5
            [] OTHER -> 4)
         + StrLen(Tail(text))

\* "posts" is "post" followed by "s"
RECURSIVE Spell(_)
Spell(text) ==
    IF text = <<>> THEN <<>>
    ELSE (IF Head(text) = "posts" THEN <<"post", "s">> ELSE <<Head(text)>>)
         \o Spell(Tail(text))

\* the whole text matches the expression
RECURSIVE FullMatch(_, _)
FullMatch(pattern, text) ==
    IF pattern = <<>> THEN text = <<>>
    ELSE LET item == Head(pattern)
             takes == text # <<>> /\ Head(text) \in item.set
         IN  CASE item.q = "1" -> takes /\ FullMatch(Tail(pattern), Tail(text))
               [] item.q = "?" -> \/ FullMatch(Tail(pattern), text)
                                  \/ takes /\ FullMatch(Tail(pattern), Tail(text))
               [] item.q = "*" -> \/ FullMatch(Tail(pattern), text)
                                  \/ takes /\ FullMatch(pattern, Tail(text))

\* re.search of an expression without anchors: some stretch of the text matches
Search(pattern, text) ==
    \E a \in 1..(Len(text) + 1) : \E b \in (a - 1)..Len(text) :
        FullMatch(pattern, SubSeq(text, a, b))

\* scraper.py:177  r'older\s*posts?'
OlderPattern ==
    <<Item({"older"}, "1"), Item(Blank, "*"), Item({"post"}, "1"), Item({"s"}, "?")>>

\* scraper.py:196-201  next_patterns, each between ^ and $.  The third and the
\* fourth are written with a doubled backslash in a raw string: they ask for
\* a backslash followed by any number of "s", not for white space.
next_patterns ==
    << <<Item({"next"}, "1"), Item(Blank, "*"), Item({"page"}, "1"), Item(Blank, "*"),
         Item({"→"}, "?")>>,
       <<Item({"next"}, "1"), Item(Blank, "*"), Item({"→"}, "1")>>,
       <<Item({"more"}, "1"), Item(Blank, "*"), Item({"post"}, "1"), Item({"s"}, "?"),
         Item({"\\"}, "1"), Item({"s"}, "*"), Item({"→"}, "?")>>,
       <<Item({"load"}, "1"), Item({"\\"}, "1"), Item({"s"}, "*"), Item({"more"}, "1"),
         Item(Blank, "*"), Item({"→"}, "?")>> >>

\* scraper.py:173 and 205  link.get_text(strip=True).lower()
GetText(a) == Spell(Lower(a.text))

\* scraper.py:177  the text holds "older post(s)"
IsOlderAnchor(a) == Search(OlderPattern, GetText(a))

\* scraper.py:207-212  long enough, and one of next_patterns matches
IsNextAnchor(a) ==
    /\ ~(StrLen(GetText(a)) < 4)
    /\ \E n \in 1..Len(next_patterns) : FullMatch(next_patterns[n], GetText(a))

\* an href without a /page/N/ ending
NoPage == -1

\* scraper.py:163-169  the number in the /page/N/ ending of current_url, else 1
CurrentPage(url_page) == IF url_page = NoPage THEN 1 ELSE url_page

\* a link as high as the highest so far taken too
ExceedsOrEquals(page_num, highest_page) == page_num >= highest_page

\* scraper.py:189  if page_num > highest_page
Exceeds(page_num, highest_page) == page_num > highest_page

\* scraper.py:181-192  the loop over the anchors from the k-th on; highest_url
\* is the index of the anchor whose href was joined (0: None)
RECURSIVE HighestLink(_, _, _, _)
HighestLink(as, k, highest_page, highest_url) ==
    IF k > Len(as) THEN highest_url
    ELSE IF as[k].page # NoPage /\ Exceeds(as[k].page, highest_page)
         THEN HighestLink(as, k + 1, as[k].page, k)
    ELSE HighestLink(as, k + 1, highest_page, highest_url)

Found(k, tier) == [link |-> k, tier |-> tier]
NotFound == Found(0, "none")

\* the page-number links tried before the "older posts" anchors
FindPaginationLinkPageFirst(as, url_page) ==
    LET older == {k \in 1..Len(as) : IsOlderAnchor(as[k])}
        highest_url == HighestLink(as, 1, CurrentPage(url_page), 0)
        next == {k \in 1..Len(as) : IsNextAnchor(as[k])}
    IN  IF highest_url # 0 THEN Found(highest_url, "page")
        ELSE IF older # {} THEN Found(Min(older), "older")
        ELSE IF next # {} THEN Found(Min(next), "next")
        ELSE NotFound

\* scraper.py:163-215  _find_pagination_link: which anchor's href is returned
\* (urljoin-ed with current_url), and by which of the three loops
FindPaginationLink(as, url_page) ==
    LET older == {k \in 1..Len(as) : IsOlderAnchor(as[k])}
        highest_url == HighestLink(as, 1, CurrentPage(url_page), 0)
        next == {k \in 1..Len(as) : IsNextAnchor(as[k])}
    IN  IF older # {} THEN Found(Min(older), "older")
        ELSE IF highest_url # 0 THEN Found(highest_url, "page")
        ELSE IF next # {} THEN Found(Min(next), "next")
        ELSE NotFound

\* what an anchor may read
AnchorTexts ==
    { <<"Older", " ", "Posts">>, <<"Next", " ", "Page">>, <<"next", " ", "→">>,
      <<"more", " ", "posts">>, <<"load", " ", "more">>, <<"load", "\\", "more">>,
      <<"next">>, <<"home">> }

\* the /page/N/ ending an href or the URL of the page may have
PageEndings == {NoPage} \cup 0..MaxPageNo

Anchors == [text : AnchorTexts, page : PageEndings]

\* _find_pagination_link is called with any page of up to MaxAnchors anchors
PaginationInit ==
    /\ pc = "find_link"
    /\ parser = "Generic"
    /\ FrameIdle
    /\ netloc = <<>>
    /\ html = <<>>
    /\ content_html = <<>>
    /\ \E n \in 0..MaxAnchors : anchors \in [1..n -> Anchors]
    /\ current_page \in PageEndings
    /\ found_link = NotFound
    /\ index_links = <<>>
    /\ index_posts = <<>>
    /\ ExtraIdle

\* scraper.py:140  next_page_url = _find_pagination_link(soup, current_url)
FindLinkCall ==
    /\ pc = "find_link"
    /\ found_link' = FindPaginationLink(anchors, current_page)
    /\ pc' = "found"
    /\ UNCHANGED <<parser, crawlLocals, histVars, cliVars>>
    /\ UNCHANGED <<netloc, html, content_html, anchors, current_page, index_links,
                   index_posts, extraVars>>

PaginationNext == FindLinkCall

SpecPagination == PaginationInit /\ [][PaginationNext]_vars

\* ----------------------------------------- parse_index of the site parsers
\* An href is a scheme, a host, a path and a fragment, each a piece or a
\* sequence of pieces of the string; a substring test of the source is a test
\* for a piece.  The index page parsed is https://own.com/blog/.
Href(scheme, host, path, frag) ==
    [scheme |-> scheme, host |-> host, path |-> path, frag |-> frag]

BaseUrl == Href("https://", <<"own.com">>, <<"/blog/">>, "")

\* the hrefs an index page may hold: relative, absolute on the blog's host, on
\* a foreign host, on a host whose name holds the blog's, or not a web address
HrefOrigins ==
    { <<"", <<>> >>, <<"https://", <<"own.com">> >>, <<"https://", <<"ext.com">> >>,
      <<"https://", <<"own.com", ".evil.net">> >>, <<"mailto:", <<>> >>,
      <<"javascript:", <<>> >> }
HrefPaths ==
    { <<>>, <<"/">>, <<"/blog/">>, <<"/blog/", "post">>, <<"/blog/", "subscribe">>,
      <<"post">>, <<"/blogging/", "post">>, <<"/blog/", "tag/", "post">>,
      <<"/blog/", "feed">> }
Hrefs == {Href(o[1], o[2], path, frag) : o \in HrefOrigins, path \in HrefPaths,
                                         frag \in {"", "#top"}}

\* an anchor of the index page: href, class, and the text that becomes the title
IndexLinks ==
    [href : Hrefs, cls : {"", "post"},
     title : {<<1, 2, 1, 2>>, <<1, 2, 1, 2, 1>>, <<1, 2, 1, 2, 1, 2, 1, 2, 1, 2>>}]

\* urllib.parse.urljoin(base, href), base a directory URL
UrlJoin(base, href) ==
    IF href.scheme # "" THEN href
    ELSE IF href.path = <<>>
         THEN [base EXCEPT !.frag = href.frag]
    ELSE IF Head(href.path) \in {"/", "/blog/", "/blogging/"}
         THEN [base EXCEPT !.path = href.path, !.frag = href.frag]
    ELSE [base EXCEPT !.path = base.path \o href.path, !.frag = href.frag]

\* not href
EmptyHref(href) ==
    href.scheme = "" /\ href.host = <<>> /\ href.path = <<>> /\ href.frag = ""

\* cedardb.py:35  "/blog/" not in href or href.rstrip("/").endswith("/blog")
NotABlogPostHref(href) ==
    \/ "/blog/" \notin Range(href.path)
    \/ (href.frag = "" /\ href.path[Len(href.path)] = "/blog/")

\* cedardb.py:39  any(skip in href.lower() for skip in ["subscribe", "newsletter", "#"])
CedarSkipped(href) ==
    \/ "subscribe" \in Range(href.path)
    \/ "newsletter" \in Range(href.path)
    \/ href.frag # ""

\* sirupsen.py:51  base_domain not in parsed_url.netloc
OutsideBaseDomain(url, base) == ~(base.host[1] \in Range(url.host))

\* sirupsen.py:55  parsed_url.path in ["/", ""]
IsHomepage(url) == url.path \in {<<"/">>, <<>>}

\* generic.py:44  urlparse(base_url).path.rstrip("/"), here "/blog"
\* generic.py:62  parsed_url.path.startswith(base_path): the pieces that begin
\* with "/blog"
StartsWithBasePath(url) ==
    url.path # <<>> /\ Head(url.path) \in {"/blog/", "/blogging/"}

\* generic.py:66  parsed_url.path.rstrip("/") == base_path
IsBasePath(url, base) == url.path = base.path

\* generic.py:70-74  one of the fixed substrings is in the path: a piece that,
\* after the "/" its predecessor ends with, spells one of them
HoldsNonPostPattern(url) ==
    \E k \in 2..Len(url.path) :
        url.path[k] \in {"tag/", "tags/", "category/", "author/", "page/", "search",
                          "about", "contact", "subscribe"}

\* does the parser pass over the link (the test for a duplicate aside)
LinkSkipped(p, link, base) ==
    CASE p = "CedarDB" ->
            \/ NotABlogPostHref(link.href)
            \/ CedarSkipped(link.href)
            \/ Len(link.title) < 5
      [] p = "TigerBeetle" ->
            \/ link.cls # "post"
            \/ EmptyHref(link.href)
            \/ Len(link.title) < 5
      [] p = "Sirupsen" ->
            \/ Len(link.title) < 3
            \/ OutsideBaseDomain(UrlJoin(base, link.href), base)
            \/ IsHomepage(UrlJoin(base, link.href))
      [] p = "Generic" ->
            \/ Len(link.title) < 10
            \/ OutsideBaseDomain(UrlJoin(base, link.href), base)
            \/ ~StartsWithBasePath(UrlJoin(base, link.href))
            \/ IsBasePath(UrlJoin(base, link.href), base)
            \/ HoldsNonPostPattern(UrlJoin(base, link.href))

\* cedardb.py:31-84, tigerbeetle.py:33-77, sirupsen.py:37-75, generic.py:47-91  the loop over the
\* links from the k-th on, posts being the list built so far.  The links of this
\* model carry no date.
RECURSIVE ParseIndexFrom(_, _, _, _, _)
ParseIndexFrom(p, links, base, k, found) ==
    IF k > Len(links) THEN found
    ELSE LET link == links[k]
             url == UrlJoin(base, link.href)
         IN  IF LinkSkipped(p, link, base) \/ (\E n \in 1..Len(found) : found[n].url = url)
             THEN ParseIndexFrom(p, links, base, k + 1, found)
             ELSE ParseIndexFrom(p, links, base, k + 1,
                                 Append(found, BlogPost(link.title, url, NoDate)))

ParseIndex(p, links, base) == ParseIndexFrom(p, links, base, 1, <<>>)

\* parse_index of a parser is called with any index page of up to
\* MaxIndexLinks links
IndexInit ==
    /\ pc = "parse_index"
    /\ parser \in Parsers
    /\ FrameIdle
    /\ netloc = <<>>
    /\ html = <<>>
    /\ content_html = <<>>
    /\ anchors = <<>>
    /\ current_page = 0
    /\ found_link = NoUrl
    /\ \E n \in 1..MaxIndexLinks : index_links \in [1..n -> IndexLinks]
    /\ index_posts = <<>>
    /\ ExtraIdle

\* scraper.py:130  posts = parser.parse_index(html, base_url)
ParseIndexCall ==
    /\ pc = "parse_index"
    /\ index_posts' = ParseIndex(parser, index_links, BaseUrl)
    /\ pc' = "index_parsed"
    /\ UNCHANGED <<parser, crawlLocals, histVars, cliVars>>
    /\ UNCHANGED <<netloc, html, content_html, anchors, current_page, found_link,
                   index_links, extraVars>>

IndexNext == ParseIndexCall

SpecIndex == IndexInit /\ [][IndexNext]_vars

\* ------------------------------------------------ _find_date_near_link
\* The link and its ancestors, innermost first.  Each element has the nodes
\* that follow it and those that precede it under its parent, nearest first;
\* a node is TRUE when its text holds a date _extract_date finds.  An element
\* counts as big when its text has 500 characters or more.
Level(next, prev, name, big) ==
    [next |-> next, prev |-> prev, name |-> name, big |-> big]

NoDateFound == [by |-> "none", level |-> 0, pos |-> 0]
DateFound(by, level, pos) == [by |-> by, level |-> level, pos |-> pos]

\* the loop left as soon as the count reaches the limit
PastLimitAtLimit(sibling_count, limit) == sibling_count >= limit

\* generic.py:137 and 155  if sibling_count > 5 / if sibling_count > 3: break
PastLimit(sibling_count, limit) == sibling_count > limit

\* generic.py:136-150 and 154-168  one loop over siblings from the k-th on:
\* the position of the sibling whose date is returned, 0 for none
RECURSIVE ScanSiblings(_, _, _, _)
ScanSiblings(siblings, k, sibling_count, limit) ==
    IF k > Len(siblings) THEN 0
    ELSE IF PastLimit(sibling_count, limit) THEN 0
    ELSE IF siblings[k] THEN k
    ELSE ScanSiblings(siblings, k + 1, sibling_count + 1, limit)

\* generic.py:119-128  the text of the element at level c holds a date: the
\* siblings of the levels below are among its descendants
TextHoldsDate(chain, c) ==
    \E l \in 1..(c - 1) :
        \/ \E k \in 1..Len(chain[l].next) : chain[l].next[k]
        \/ \E k \in 1..Len(chain[l].prev) : chain[l].prev[k]

\* generic.py:107-130  the loop of _find_date_near_link with current at level c
RECURSIVE WalkUp(_, _, _)
WalkUp(chain, c, levels_checked) ==
    IF c > Len(chain) \/ ~(levels_checked < max_levels) THEN NoDateFound
    ELSE LET after == ScanSiblings(chain[c].next, 1, 0, NextLimit)
             before == ScanSiblings(chain[c].prev, 1, 0, PrevLimit)
         IN  IF after # 0 THEN DateFound("next", c, after)
             ELSE IF before # 0 THEN DateFound("prev", c, before)
             ELSE IF c + 1 > Len(chain) THEN NoDateFound
             ELSE IF chain[c + 1].name \in {"body", "html", "main"} THEN NoDateFound
             ELSE IF ~chain[c + 1].big /\ TextHoldsDate(chain, c + 1)
                  THEN DateFound("text", c + 1, 0)
             ELSE WalkUp(chain, c + 1, levels_checked + 1)

FindDateNearLink(chain) == WalkUp(chain, 1, 0)

\* a chain of the given depth with MaxSiblings nodes on either side of every
\* element and a date in one of them only
ChainWithDate(depth, level, side, pos, top, big) ==
    [l \in 1..depth |->
        Level([k \in 1..MaxSiblings |-> l = level /\ side = "next" /\ k = pos],
              [k \in 1..MaxSiblings |-> l = level /\ side = "prev" /\ k = pos],
              IF l = 1 THEN "a" ELSE IF l = depth THEN top ELSE "div",
              big)]

\* _find_date_near_link is called for a link up to MaxDepth elements deep
DateInit ==
    /\ pc = "find_date"
    /\ parser = "Generic"
    /\ FrameIdle
    /\ netloc = <<>>
    /\ html = <<>>
    /\ content_html = <<>>
    /\ anchors = <<>>
    /\ current_page = 0
    /\ found_link = NoUrl
    /\ index_links = <<>>
    /\ index_posts = <<>>
    /\ \E depth \in 1..MaxDepth : \E level \in 1..depth : \E pos \in 1..MaxSiblings :
          \E side \in {"next", "prev"} : \E top \in {"div", "body"} : \E big \in BOOLEAN :
             link_chain = ChainWithDate(depth, level, side, pos, top, big)
    /\ near_date = NoDateFound
    /\ TextIdle
    /\ CleanIdle
    /\ LtIdle

\* generic.py:78  self._find_date_near_link(link)
FindDateCall ==
    /\ pc = "find_date"
    /\ near_date' = FindDateNearLink(link_chain)
    /\ pc' = "date_searched"
    /\ UNCHANGED <<parser, crawlLocals, histVars, cliVars>>
    /\ UNCHANGED <<netloc, html, content_html, anchors, current_page, found_link,
                   index_links, index_posts, link_chain, textVars, cleanVars,
                   ltVars>>

DateNext == FindDateCall

SpecDate == DateInit /\ [][DateNext]_vars

\* -------------------------------------------------------- BlogPost.__lt__
\* __lt__ is asked about every pair of three posts, any titles and dates
LtPosts == 1..3
LtInit ==
    /\ pc = "compare"
    /\ parser = "Generic"
    /\ FrameIdle
    /\ netloc = <<>>
    /\ html = <<>>
    /\ content_html = <<>>
    /\ anchors = <<>>
    /\ current_page = 0
    /\ found_link = NoUrl
    /\ index_links = <<>>
    /\ index_posts = <<>>
    /\ DateIdle
    /\ TextIdle
    /\ CleanIdle
    /\ \E m \in [LtPosts -> SortMeta] : lt_posts = SortList(3, m)
    /\ lt_result = <<>>

\* document.py:890  sorted(posts) asks a.__lt__(b) of pairs of posts
Compare ==
    /\ pc = "compare"
    /\ lt_result' = [pair \in LtPosts \X LtPosts |->
                        PostLt(lt_posts[pair[1]], lt_posts[pair[2]])]
    /\ pc' = "compared"
    /\ UNCHANGED <<parser, crawlLocals, histVars, cliVars>>
    /\ UNCHANGED <<netloc, html, content_html, anchors, current_page, found_link,
                   index_links, index_posts, dateVars, textVars, cleanVars, lt_posts>>

LtNext == Compare

SpecLt == LtInit /\ [][LtNext]_vars

\* ---------------------------------------------------------- normalize_text
\* A string is a sequence of characters.  ASCII characters stand for
\* themselves; the others go by name: "a-circumflex" U+00E2,
\* "combining-circumflex" U+0302, "sup-2" U+00B2, "sub-2" U+2082, "en-dash"
\* U+2013, "em-dash" U+2014, "euro" U+20AC, "x80" U+0080 and so on.
Str3(a, b, c) == <<a, b, c>>

\* document.py:20-25 and 28-32  the two tables, Unicode character to base
superscripts ==
    {<<"sup-0", "0">>, <<"sup-1", "1">>, <<"sup-2", "2">>, <<"sup-3", "3">>,
     <<"sup-4", "4">>, <<"sup-5", "5">>, <<"sup-6", "6">>, <<"sup-7", "7">>,
     <<"sup-8", "8">>, <<"sup-9", "9">>, <<"sup-plus", "+">>, <<"sup-minus", "-">>,
     <<"sup-equals", "=">>, <<"sup-lparen", "(">>, <<"sup-rparen", ")">>,
     <<"sup-n", "n">>, <<"sup-i", "i">>}
subscripts ==
    {<<"sub-0", "0">>, <<"sub-1", "1">>, <<"sub-2", "2">>, <<"sub-3", "3">>,
     <<"sub-4", "4">>, <<"sub-5", "5">>, <<"sub-6", "6">>, <<"sub-7", "7">>,
     <<"sub-8", "8">>, <<"sub-9", "9">>, <<"sub-plus", "+">>, <<"sub-minus", "-">>,
     <<"sub-equals", "=">>, <<"sub-lparen", "(">>, <<"sub-rparen", ")">>}
Keys(table) == {e[1] : e \in table}
Lookup(table, c) == (CHOOSE e \in table : e[1] = c)[2]

SupOpen == <<"<", "s", "u", "p", ">">>
SupClose == <<"<", "/", "s", "u", "p", ">">>
SubOpen == <<"<", "s", "u", "b", ">">>
SubClose == <<"<", "/", "s", "u", "b", ">">>

\* ''.join(result): the strings of a list put together, here by halves
RECURSIVE Join(_, _, _)
Join(parts, lo, hi) ==
    IF lo > hi THEN <<>>
    ELSE IF lo = hi THEN parts[lo]
    ELSE Join(parts, lo, (lo + hi) \div 2) \o Join(parts, (lo + hi) \div 2 + 1, hi)

\* document.py:40-46 and 47-53  what the character at place k of a run of
\* table characters adds to the result: its base character, after the opening
\* tag when it starts the run and before the closing tag when it ends it
SpanPiece(s, k, table, open, close) ==
    (IF k = 1 \/ s[k - 1] \notin Keys(table) THEN open ELSE <<>>)
        \o <<Lookup(table, s[k])>>
        \o (IF k = Len(s) \/ s[k + 1] \notin Keys(table) THEN close ELSE <<>>)

\* document.py:14-56  convert_superscripts_to_html(text)
convert_superscripts_to_html(s) ==
    Join([k \in 1..Len(s) |->
             IF s[k] \in Keys(superscripts)
             THEN SpanPiece(s, k, superscripts, SupOpen, SupClose)
             ELSE IF s[k] \in Keys(subscripts)
             THEN SpanPiece(s, k, subscripts, SubOpen, SubClose)
             ELSE <<s[k]>>],
         1, Len(s))

\* A substitution from left to right: lens[k] is the length of the match that
\* starts at place k (0 for none).  No pattern of normalize_text holds its
\* first character a second time, so two matches never overlap and every
\* match is replaced; the characters inside a match go.  No pattern matches
\* more than three characters, so a match that covers place k starts one or
\* two places before it.
Substitute(s, lens, new) ==
    Join([k \in 1..Len(s) |->
             IF lens[k] > 0 THEN new
             ELSE IF \E d \in 1..2 : d < k /\ lens[k - d] > d THEN <<>>
             ELSE <<s[k]>>],
         1, Len(s))

\* str.replace(old, new)
StrReplace(s, old, new) ==
    Substitute(s,
               [k \in 1..Len(s) |->
                   IF /\ k + Len(old) - 1 <= Len(s)
                      /\ SubSeq(s, k, k + Len(old) - 1) = old
                   THEN Len(old) ELSE 0],
               new)

\* for old, new in table.items(): text = text.replace(old, new)
\* (nothing is left to replace in an empty string)
RECURSIVE ReplaceEach(_, _)
ReplaceEach(s, table) ==
    IF table = <<>> \/ s = <<>> THEN s
    ELSE ReplaceEach(StrReplace(s, Head(table)[1], Head(table)[2]), Tail(table))

Quote == <<"'">>
DQuote == <<"\"">>

\* the dash without the spaces around it
BareDash == <<"en-dash">>

\* document.py:110-111  ' \u2013 ', an en dash with a space on either side
SpacedDash == <<" ", "en-dash", " ">>
Dots == <<".", ".", ".">>

\* document.py:72-89  mojibake_fixes, in the order of the dictionary (the key
\* written twice, at 77 and 78, is one entry)
mojibake_fixes ==
    <<<<Str3("a-circumflex", "euro", "trademark"), Quote>>,
      <<Str3("a-circumflex", "euro", "small-tilde"), Quote>>,
      <<Str3("a-circumflex", "euro", "oe"), DQuote>>,
      <<<<"a-circumflex", "euro">>, DQuote>>,
      <<Str3("a-circumflex", "euro", "\""), SpacedDash>>,
      <<Str3("a-circumflex", "euro", "broken-bar"), Dots>>,
      <<<<"A-tilde", "cent">>, <<"a">>>>,
      <<Str3("a-circumflex", "x80", "x99"), Quote>>,
      <<Str3("a-circumflex", "x80", "x9c"), DQuote>>,
      <<Str3("a-circumflex", "x80", "x9d"), DQuote>>,
      <<Str3("a-circumflex", "x80", "x93"), SpacedDash>>,
      <<Str3("a-circumflex", "x80", "x94"), SpacedDash>>,
      <<Str3("a-circumflex", "white-square", "white-square"), Quote>>,
      <<Str3("a-circumflex", "replacement", "replacement"), Quote>>>>

\* the characters of [\x80-\xbf], of \w and of \s among those named here
HighBytes ==
    {"x80", "x93", "x94", "x99", "x9c", "x9d", "nbsp", "cent", "broken-bar",
     "left-guillemet", "right-guillemet", "sup-1", "sup-2", "sup-3"}
WordChars ==
    {"a", "b", "i", "n", "p", "s", "u", "0", "1", "2", "3", "4", "5", "6", "7", "8",
     "9", "_", "a-circumflex", "A-tilde", "oe", "sup-n", "sup-i"}
        \cup {"sup-0", "sup-1", "sup-2", "sup-3", "sup-4", "sup-5", "sup-6", "sup-7",
              "sup-8", "sup-9"}
        \cup {"sub-0", "sub-1", "sub-2", "sub-3", "sub-4", "sub-5", "sub-6", "sub-7",
              "sub-8", "sub-9"}
SpaceChars == {" ", "nbsp"}
Garbage(c) == c \notin WordChars \cup SpaceChars

\* document.py:96  re.sub(r'a-circumflex[\x80-\xbf][\x80-\xbf]', "'", text)
SubHighBytes(s) ==
    Substitute(s,
               [k \in 1..Len(s) |->
                   IF /\ k + 2 <= Len(s)
                      /\ s[k] = "a-circumflex"
                      /\ s[k + 1] \in HighBytes
                      /\ s[k + 2] \in HighBytes
                   THEN 3 ELSE 0],
               Quote)

\* document.py:97  re.sub(r'a-circumflex[^\w\s]{1,2}', "'", text), greedy
SubGarbage(s) ==
    Substitute(s,
               [k \in 1..Len(s) |->
                   IF k + 1 <= Len(s) /\ s[k] = "a-circumflex" /\ Garbage(s[k + 1])
                   THEN IF k + 2 <= Len(s) /\ Garbage(s[k + 2]) THEN 3 ELSE 2
                   ELSE 0],
               Quote)

\* document.py:102  unicodedata.normalize('NFC', text): of the characters here
\* only "a" with a combining circumflex composes
NFC(s) == StrReplace(s, <<"a", "combining-circumflex">>, <<"a-circumflex">>)

\* document.py:105-119  replacements, in the order of the dictionary
replacements ==
    <<<<<<"left-single-quote">>, Quote>>,
      <<<<"right-single-quote">>, Quote>>,
      <<<<"left-double-quote">>, DQuote>>,
      <<<<"right-double-quote">>, DQuote>>,
      <<<<"en-dash">>, SpacedDash>>,
      <<<<"em-dash">>, SpacedDash>>,
      <<<<"ellipsis">>, Dots>>,
      <<<<"nbsp">>, <<" ">>>>,
      <<<<"zero-width-space">>, <<>>>>,
      <<<<"bullet">>, <<"*">>>>,
      <<<<"left-guillemet">>, DQuote>>,
      <<<<"right-guillemet">>, DQuote>>,
      <<<<"replacement">>, <<>>>>>>

\* document.py:59-124  normalize_text(text)
normalize_text(s) ==
    IF s = <<>> THEN s
    ELSE ReplaceEach(
             NFC(SubGarbage(SubHighBytes(
                 ReplaceEach(convert_superscripts_to_html(s), mojibake_fixes)))),
             replacements)

\* the characters of the strings normalize_text is tried on
TextChars ==
    {"a", "a-circumflex", "combining-circumflex", "sup-2", "sup-3", "sub-2",
     "en-dash", "em-dash", "x80", "x93"}

\* normalize_text is called with any string of up to MaxTextLen characters
TextInit ==
    /\ pc = "normalize_text"
    /\ parser = "Generic"
    /\ FrameIdle
    /\ netloc = <<>>
    /\ html = <<>>
    /\ content_html = <<>>
    /\ anchors = <<>>
    /\ current_page = 0
    /\ found_link = NoUrl
    /\ index_links = <<>>
    /\ index_posts = <<>>
    /\ DateIdle
    /\ \E n \in 0..MaxTextLen : text_arg \in [1..n -> TextChars]
    /\ normalized = <<>>
    /\ renormalized = <<>>
    /\ CleanIdle
    /\ LtIdle

\* document.py:917  content = normalize_text(content)
NormalizeCall ==
    /\ pc = "normalize_text"
    /\ normalized' = normalize_text(text_arg)
    /\ pc' = "normalized"
    /\ UNCHANGED <<parser, crawlLocals, histVars, cliVars>>
    /\ UNCHANGED <<netloc, html, content_html, anchors, current_page, found_link,
                   index_links, index_posts, dateVars, text_arg, renormalized,
                   cleanVars, ltVars>>

\* normalize_text applied to its own result
NormalizeAgain ==
    /\ pc = "normalized"
    /\ renormalized' = normalize_text(normalized)
    /\ pc' = "renormalized"
    /\ UNCHANGED <<parser, crawlLocals, histVars, cliVars>>
    /\ UNCHANGED <<netloc, html, content_html, anchors, current_page, found_link,
                   index_links, index_posts, dateVars, text_arg, normalized,
                   cleanVars, ltVars>>

TextNext == NormalizeCall \/ NormalizeAgain

SpecText == TextInit /\ [][TextNext]_vars

\* ================================================================ claims
InDiscovery == pc \in {"queued", "fetching", "parsing", "returned"}

Distinct(ps) ==
    \A a, b \in 1..Len(ps) : a # b => ps[a].url # ps[b].url

\* C1: the posts accumulated by discover_posts have pairwise distinct URLs in
\* every state of the crawl (between any two iterations of the merge loop too),
\* and so has the list it returns, whatever the parser reports.
C1_UrlsDistinct == Distinct(all_posts) /\ Distinct(posts)

\* C1 witness: on a later page the parser reports a URL that is already held
C1_Witness ==
    /\ pc = "parsing"
    /\ last_merge = "duplicate"
    /\ pages_visited >= 2
    /\ Len(all_posts) = NumPostUrls

\* C2: no index URL is fetched twice; after a page whose next-page link leads
\* back to a fetched URL nothing is left to visit, so the loop ends, and what
\* discover_posts returns is everything collected.
C2_BackLinkEndsCrawl ==
    /\ ~refetched
    /\ (pc = "queued" /\ last_link = "back"
           => pages_to_visit = <<>> /\ ~LoopCond(pages_to_visit, pages_visited))
    /\ (pc = "returned" /\ last_link = "back" => posts = all_posts)

\* C2 witness: discover_posts has returned posts after a back link on page two
C2_Witness ==
    /\ pc = "returned"
    /\ last_link = "back"
    /\ pages_visited = 2
    /\ posts # <<>>

\* C3: discover_posts calls fetch_url for at most max_pages index pages,
\* failed calls counted.
C3_FetchCeiling == fetch_count <= max_pages

\* C3 witness: the ceiling stops the crawl while a page is still queued
C3_Witness ==
    /\ pc = "returned"
    /\ fetch_count = max_pages
    /\ pages_to_visit # <<>>

C5_TitleFromFirstPage ==
    /\ [](InDiscovery =>
             blog_title = (IF any_ok THEN first_title ELSE NoTitle))
    /\ [][InDiscovery /\ InDiscovery' /\ blog_title # NoTitle
             => blog_title' = blog_title]_vars

\* C5 witness: a second page is parsed and the title of the first still stands
C5_Witness ==
    /\ pc = "parsing"
    /\ pages_visited = 2
    /\ parser = "Generic"
    /\ blog_title = "My Blog"

LexLess(s, t) ==
    \E k \in 1..(Len(t)) :
        /\ k <= Len(s) + 1
        /\ \A j \in 1..(k - 1) : s[j] = t[j]
        /\ (k = Len(s) + 1 \/ s[k] < t[k])

SamePosts(s, t) ==
    /\ Len(s) = Len(t)
    /\ \A p \in Range(s) \cup Range(t) :
          Cardinality({k \in 1..Len(s) : s[k] = p}) = Cardinality({k \in 1..Len(t) : t[k] = p})

\* C7: the list sorted() hands to assembly holds the posts it was given, every
\* dated post before every undated one, of two dated posts with different
\* dates the later first, of two undated posts with different titles the
\* lexicographically smaller title first.
C7_AssemblyOrder ==
    pc = "generated"
       => /\ SamePosts(sorted_posts, successful_posts)
          /\ \A a, b \in 1..Len(sorted_posts) :
                a < b =>
                   LET x == sorted_posts[a]
                       y == sorted_posts[b]
                   IN  /\ ~(x.date = NoDate /\ y.date # NoDate)
                       /\ (x.date # NoDate /\ y.date # NoDate /\ x.date # y.date
                              => x.date > y.date)
                       /\ (x.date = NoDate /\ y.date = NoDate /\ x.title # y.title
                              => LexLess(x.title, y.title))

\* C7 witness: three posts given as undated, older, newer come out reordered
C7_Witness ==
    /\ pc = "generated"
    /\ Len(successful_posts) = 3
    /\ successful_posts[1].date = NoDate
    /\ successful_posts[2].date = 1
    /\ successful_posts[3].date = 2
    /\ sorted_posts[1] = successful_posts[3]
    /\ sorted_posts[3] = successful_posts[1]

HydrationOver == pc \in {"generating", "generated", "exit_no_content", "exit_error"}

\* C8: while the fetch loop runs every post before index i has been tried
\* once and none from i on; once the loop is left every post has been tried
\* exactly once, whichever fetches failed; and a step of the loop changes no
\* post other than the one at i.
C8_EachPostTriedOnce ==
    /\ [](pc = "hydrating" =>
             /\ Len(attempts) = Len(posts)
             /\ \A k \in 1..Len(posts) : attempts[k] = (IF k < i THEN 1 ELSE 0))
    /\ [](HydrationOver =>
             /\ Len(attempts) = Len(posts)
             /\ \A k \in 1..Len(posts) : attempts[k] = 1)
    /\ [][pc = "hydrating"
             => /\ Len(posts') = Len(posts)
                /\ \A k \in 1..Len(posts) : k # i => posts'[k] = posts[k]]_vars

\* C8 witness: the first fetch failed, the second post was fetched and stored
C8_Witness ==
    /\ pc = "generating"
    /\ Len(posts) = 2
    /\ outcome = <<"failed", "ok">>
    /\ posts[2].content_html # ""

\* C9: a post whose fetch failed keeps empty content and is recorded in
\* failed_posts; once the loop is over the list handed to generation holds
\* exactly the posts whose fetch succeeded, in discovery order.
C9_FailedPostsLeftOut ==
    /\ (pc = "hydrating" \/ HydrationOver =>
           \A k \in 1..Len(posts) :
               outcome[k] = "failed"
                  => /\ posts[k].content_html = ""
                     /\ \E f \in 1..Len(failed_posts) : failed_posts[f] = k)
    /\ (pc \in {"generating", "generated", "exit_no_content"} =>
           /\ \A k \in 1..Len(posts) :
                 /\ outcome[k] = "failed" => posts[k] \notin Range(successful_posts)
                 /\ outcome[k] = "ok" => posts[k] \in Range(successful_posts)
           /\ Range(successful_posts) \subseteq Range(posts))

\* C9 witness: of two posts the second failed and only the first is handed on
C9_Witness ==
    /\ pc = "generating"
    /\ outcome = <<"ok", "failed">>
    /\ successful_posts = <<posts[1]>>

\* C10: "no posts found" is reached only with the empty list discover_posts
\* returned, "no posts fetched" only when every discovered post was tried once
\* and none has content; generate_pdf is called in neither case, and only
\* after the loop ended with a post that has content.
C10_TerminalFailures ==
    /\ (pc = "exit_no_posts" =>
           /\ cli_parser \in Parsers
           /\ posts = <<>>
           /\ generate_calls = 0)
    /\ (pc = "exit_no_content" =>
           /\ posts # <<>>
           /\ \A k \in 1..Len(posts) : attempts[k] = 1 /\ posts[k].content_html = ""
           /\ generate_calls = 0)
    /\ (generate_calls > 0 => pc = "generated" /\ successful_posts # <<>>)

\* C10 witness: two posts discovered, both fetches failed
C10_Witness ==
    /\ pc = "exit_no_content"
    /\ Len(posts) = 2
    /\ failed_posts = <<1, 2>>

\* the place a URL holds in the list discover_posts returned
PosOf(ps, u) == CHOOSE k \in 1..Len(ps) : ps[k].url = u

\* C11: nothing is ordered or assembled before the fetch loop has ended with
\* every post tried once; the assembled order then holds the posts that have
\* content, ordered by BlogPost.__lt__, posts that compare equal in discovery
\* order: it is fixed by which fetches succeeded, not by when they ran.
C11_OrderAfterAllFetches ==
    /\ (sorted_posts # <<>> \/ post_sections # <<>> \/ generate_calls > 0
           => /\ pc = "generated"
              /\ i = Len(posts) + 1
              /\ \A k \in 1..Len(posts) : attempts[k] = 1)
    /\ (pc = "generated"
           => /\ SamePosts(sorted_posts, SelectSeq(posts, IsSuccessful))
              /\ \A a, b \in 1..Len(sorted_posts) :
                    a < b =>
                       LET x == sorted_posts[a]
                           y == sorted_posts[b]
                       IN  /\ ~PostLt(y, x)
                           /\ (~PostLt(x, y) => PosOf(posts, x.url) < PosOf(posts, y.url)))

\* C11 witness: two posts that compare equal, both fetched, assembled in
\* discovery order after a crawl that listed them
C11_Witness ==
    /\ pc = "generated"
    /\ Len(posts) = 2
    /\ outcome = <<"ok", "ok">>
    /\ ~PostLt(posts[1], posts[2]) /\ ~PostLt(posts[2], posts[1])
    /\ sorted_posts = posts

\* the passes a section content went through, the extraction left out
Passes(content) == Tail(content)

\* C12 as stated: once the document is assembled the content stored on every
\* fetched post is the cleaned and normalized content of its section.
C12_StoredContentIsNormalized ==
    pc = "generated"
       => \A k \in 1..Len(posts) :
             outcome[k] = "ok"
                => \E n \in 1..Len(post_sections) :
                      /\ post_sections[n].url = posts[k].url
                      /\ post_sections[n].content = <<posts[k].content_html>>

\* C12: every fetched post has exactly one section; its content is what
\* parse_post returned put once through clean_html_content,
\* resolve_relative_urls, convert_latex_math and normalize_text, in that order;
\* the content stored on the post stays what parse_post returned.
C12_PipelineOrder ==
    /\ (pc # "generated" => post_sections = <<>>)
    /\ (pc = "generated"
           => /\ Len(post_sections) = Len(sorted_posts)
              /\ \A n \in 1..Len(post_sections) :
                    /\ post_sections[n].url = sorted_posts[n].url
                    /\ Head(post_sections[n].content) = sorted_posts[n].content_html
                    /\ Passes(post_sections[n].content)
                          = <<"clean_html_content", "resolve_relative_urls",
                              "convert_latex_math", "normalize_text">>
              /\ \A k \in 1..Len(posts) :
                    /\ outcome[k] = "ok" => posts[k].content_html \in Contents
                    /\ Cardinality({n \in 1..Len(post_sections) :
                                       post_sections[n].url = posts[k].url})
                          = (IF outcome[k] = "ok" THEN 1 ELSE 0))

\* C12 witness: of two posts one was fetched; its section holds the four passes
C12_Witness ==
    /\ pc = "generated"
    /\ outcome = <<"failed", "ok">>
    /\ Len(post_sections) = 1
    /\ post_sections[1].url = posts[2].url
    /\ Len(post_sections[1].content) = 5

\* the registry key a host stands for when only a leading "www." is dropped
StripLeadingWww(host) ==
    IF host # <<>> /\ Head(host) = "www." THEN Tail(host) ELSE host

\* C13 as stated: get_parser returns the registered parser exactly for the
\* hosts that equal a registry key once a leading "www." is dropped, and the
\* Generic parser for every other host, one with "www." further inside included.
C13_OnlyLeadingWwwStripped ==
    pc = "got_parser" => parser = RegistryGet(StripLeadingWww(netloc), "Generic")

SiteParsers == {"CedarDB", "TigerBeetle", "Sirupsen"}

HasTag(node, tags) ==
    \E k \in 1..Len(Preorder(<<node>>)) : Preorder(<<node>>)[k].tag \in tags

\* C14 as stated: a site parser that finds no article, main or content-like
\* container returns the body without any nav, header, footer, aside, script
\* or style subtree.
C14_FallbackBodyStripped ==
    pc = "parsed" /\ parser \in SiteParsers /\ FindContainer(parser, html) = NoNode
       => /\ content_html.tag = "body"
          /\ ~HasTag(content_html,
                     {"nav", "header", "footer", "aside", "script", "style"})

\* the anchors of the three kinds on the page _find_pagination_link was given
OlderAnchors == {k \in 1..Len(anchors) : IsOlderAnchor(anchors[k])}
HigherPageAnchors ==
    {k \in 1..Len(anchors) :
        anchors[k].page # NoPage /\ anchors[k].page > CurrentPage(current_page)}

\* C15: when some anchor reads "older post(s)" the first such anchor is
\* returned, whatever page-number links and "next" anchors the page holds; a
\* link is returned for its page number only when no anchor reads "older
\* post(s)", and for its "next" wording only when in addition no page-number
\* link exceeds the current page.
C15_TierPriority ==
    pc = "found"
       => /\ (OlderAnchors # {} => found_link = Found(Min(OlderAnchors), "older"))
          /\ (found_link.tier = "page" => OlderAnchors = {})
          /\ (found_link.tier = "next"
                 => OlderAnchors = {} /\ HigherPageAnchors = {})

\* C15 witness: a "Next Page" anchor to /page/2/ comes first, an "Older Posts"
\* anchor second, and the second is returned
C15_Witness ==
    /\ pc = "found"
    /\ Len(anchors) = 2
    /\ anchors[1] = [text |-> <<"Next", " ", "Page">>, page |-> 2]
    /\ anchors[2].text = <<"Older", " ", "Posts">>
    /\ current_page = NoPage
    /\ found_link = Found(2, "older")

\* C16: a link returned for its page number has the highest /page/N/ number
\* on the page (the first of those, if several), and that number exceeds the
\* number of the current page, 1 for a URL without /page/N/; with no "older
\* posts" anchor and some link exceeding the current page, such a link is
\* what is returned.
C16_HighestPageLink ==
    pc = "found"
       => /\ (found_link.tier = "page"
                 => /\ found_link.link \in HigherPageAnchors
                    /\ \A j \in 1..Len(anchors) :
                          /\ anchors[j].page <= anchors[found_link.link].page
                          /\ (j < found_link.link
                                 => anchors[j].page < anchors[found_link.link].page))
          /\ (OlderAnchors = {} /\ HigherPageAnchors # {} => found_link.tier = "page")

\* C16 witness: on the first page (no /page/N/ in its URL) a link to /page/1/
\* is passed over and the link to /page/2/ returned
C16_Witness ==
    /\ pc = "found"
    /\ current_page = NoPage
    /\ Len(anchors) = 2
    /\ anchors[1].page = 1
    /\ anchors[2].page = 2
    /\ found_link = Found(2, "page")

\* the wordings next_patterns is written for, white space where the source
\* has the doubled backslash
NextWordings ==
    << <<Item({"next"}, "1"), Item(Blank, "*"), Item({"page"}, "1"), Item(Blank, "*"),
         Item({"→"}, "?")>>,
       <<Item({"next"}, "1"), Item(Blank, "*"), Item({"→"}, "1")>>,
       <<Item({"more"}, "1"), Item(Blank, "*"), Item({"post"}, "1"), Item({"s"}, "?"),
         Item(Blank, "*"), Item({"→"}, "?")>>,
       <<Item({"load"}, "1"), Item(Blank, "*"), Item({"more"}, "1"), Item(Blank, "*"),
         Item({"→"}, "?")>> >>

NextWordedAnchors ==
    {k \in 1..Len(anchors) :
        \E n \in 1..Len(NextWordings) : FullMatch(NextWordings[n], GetText(anchors[k]))}

\* C17 as stated: with no "older posts" anchor and no page-number link above
\* the current page, the first anchor whose whole text is a "next page",
\* "next ->", "more posts" or "load more" wording (in any case) is returned.
C17_NextWordingReturned ==
    pc = "found" /\ OlderAnchors = {} /\ HigherPageAnchors = {}
                 /\ NextWordedAnchors # {}
       => found_link = Found(Min(NextWordedAnchors), "next")

\* C18: no index URL is fetched twice: every URL waiting in the queue is
\* unvisited (a link to a visited page is not enqueued), every fetch was of a
\* different URL, each counted once, and a step that pops a visited URL
\* fetches nothing and leaves the page counter alone.
C18_NoIndexPageTwice ==
    /\ [](InDiscovery =>
             /\ \A k \in 1..Len(pages_to_visit) : pages_to_visit[k] \notin visited_urls
             /\ ~refetched
             /\ fetch_count = Cardinality(fetched_urls)
             /\ fetched_urls \subseteq visited_urls
             /\ pages_visited = Cardinality(visited_urls))
    /\ [][pc = "queued" /\ pages_to_visit # <<>>
                         /\ Head(pages_to_visit) \in visited_urls
             => /\ pc' # "fetching"
                /\ fetch_count' = fetch_count
                /\ pages_visited' = pages_visited]_vars

\* C18 witness: the third page links back to a page fetched before; the link
\* is not enqueued and three fetches were made of three URLs
C18_Witness ==
    /\ pc = "queued"
    /\ last_link = "back"
    /\ pages_to_visit = <<>>
    /\ fetch_count = 3
    /\ Cardinality(fetched_urls) = 3

\* C19: every call of parse_index gets the URL discover_posts was started
\* with as base_url, on later pages too.
C19_ParseIndexBaseIsStart ==
    /\ base_arg \in {NoUrl, StartUrl}
    /\ (pc = "parsing" => base_arg = StartUrl)

\* C19 witness: the second page, whose URL is not the start URL, is parsed
C19_Witness ==
    /\ pc = "parsing"
    /\ pages_visited = 2
    /\ current_url # StartUrl
    /\ base_arg = StartUrl

\* the resolved URL lies on the blog's own host
OnBlogDomain(url) == url.scheme = "https://" /\ url.host = BaseUrl.host

\* the resolved URL is the index page, with or without a fragment
IsIndexPage(url) == OnBlogDomain(url) /\ url.path = BaseUrl.path

\* the link is a subscription or newsletter link or no web address at all
Denylisted(url) ==
    \/ url.scheme \in {"mailto:", "tel:", "javascript:"}
    \/ "subscribe" \in Range(url.path)
    \/ "newsletter" \in Range(url.path)

\* C20 as stated: every post a site parser's parse_index returns has a URL on
\* the blog's own domain, is not the index page itself (an anchor-only link
\* resolves to it) and comes from no subscription, newsletter, mailto:, tel:
\* or javascript: link.
C20_IndexLinksFiltered ==
    pc = "index_parsed" /\ parser \in SiteParsers
       => \A k \in 1..Len(index_posts) :
             /\ OnBlogDomain(index_posts[k].url)
             /\ ~IsIndexPage(index_posts[k].url)
             /\ ~Denylisted(index_posts[k].url)

\* the path lies under the base path /blog, on a segment boundary
UnderBasePath(url) == url.path # <<>> /\ Head(url.path) = "/blog/"

\* the path holds a tag, category, author, pagination or feed segment
HoldsNonPostSegment(url) ==
    \E k \in 1..Len(url.path) :
        url.path[k] \in {"tag/", "tags/", "category/", "author/", "page/", "feed"}

\* C21 as stated: every post the Generic parser's parse_index returns is on
\* the host of the base URL, under the base path on a segment boundary, is
\* not the index page and has no tag, category, author, pagination or feed
\* segment in its path.
C21_GenericIndexScope ==
    pc = "index_parsed" /\ parser = "Generic"
       => \A k \in 1..Len(index_posts) :
             /\ OnBlogDomain(index_posts[k].url)
             /\ UnderBasePath(index_posts[k].url)
             /\ ~IsIndexPage(index_posts[k].url)
             /\ ~HoldsNonPostSegment(index_posts[k].url)

\* C22 as stated: a date is taken from no following sibling beyond the sixth,
\* from no preceding sibling beyond the third, and from no element more than
\* five levels above the link.
C22_DateSearchWindows ==
    pc = "date_searched"
       => /\ (near_date.by = "next" => near_date.pos <= 6)
          /\ (near_date.by = "prev" => near_date.pos <= 3)
          /\ (near_date.by # "none" => near_date.level - 1 <= 5)

\* C22: a date is taken from no following sibling beyond the sixth, from no
\* preceding sibling beyond the fourth, and from no element more than five
\* levels above the link; a date in one of the first six following or the
\* first four preceding siblings of the link itself is the one returned.
C22_DateSearchWindowsExact ==
    pc = "date_searched"
       => /\ (near_date.by = "next" => near_date.pos <= 6)
          /\ (near_date.by = "prev" => near_date.pos <= 4)
          /\ (near_date.by # "none" => near_date.level - 1 <= 5)
          /\ \A k \in 1..6 :
                link_chain[1].next[k] => near_date = DateFound("next", 1, k)
          /\ \A k \in 1..4 :
                link_chain[1].prev[k] => near_date = DateFound("prev", 1, k)

\* C22 witness: the only date sits in the fourth node before the link and is
\* the one returned
C22_Witness ==
    /\ pc = "date_searched"
    /\ link_chain[1].prev[4]
    /\ near_date = DateFound("prev", 1, 4)

\* the sections and divs inside the container of the page parse_post was given;
\* on a page with a link list an element is known by its tag and class words
InnerSections ==
    LET nodes == Preorder(FindContainer(parser, html).kids)
    IN  {nodes[k] : k \in {j \in 1..Len(nodes) : nodes[j].tag \in {"section", "div"}}}
Appears(d, fragment) ==
    \E k \in 1..Len(Preorder(<<fragment>>)) :
        /\ Preorder(<<fragment>>)[k].tag = d.tag
        /\ Preorder(<<fragment>>)[k].cls = d.cls

\* the element as the link heuristic meets it, after the removals by tag and
\* class that run before it
AfterChrome(d) == Decompose(<<d>>, ChromeTags(parser), ChromeWords(parser))[1]

\* C23 as stated: a div or section inside the article of a CedarDB post that
\* holds three or more links to /blog/ pages is absent from the returned
\* fragment, and one that holds two or fewer is still there.
C23_LinkGridRemoved ==
    pc = "parsed" /\ parser = "CedarDB" /\ FindContainer(parser, html) # NoNode
       => \A d \in InnerSections :
             /\ (Cardinality(BlogLinks(d)) >= 3 => ~Appears(d, content_html))
             /\ (Cardinality(BlogLinks(d)) <= 2 => Appears(d, content_html))

\* C23 amended: the links are counted after the removals by tag and class; a
\* div or section that then still holds three or more links to /blog/ pages is
\* absent from the returned fragment, and one that then holds two or fewer is
\* still there unless a div or section around it was removed.
C23_LinkGridRemovedAfterPasses ==
    pc = "parsed" /\ parser = "CedarDB" /\ FindContainer(parser, html) # NoNode
       => \A d \in InnerSections :
             /\ (Cardinality(BlogLinks(AfterChrome(d))) >= 3
                    => ~Appears(d, content_html))
             /\ ((\A e \in InnerSections \cup {d} :
                      Cardinality(BlogLinks(AfterChrome(e))) <= 2)
                    => Appears(d, content_html))

\* C23 witness: a related-posts div with four plain /blog/ links inside the
\* article is gone from the returned fragment
C23_Witness ==
    /\ pc = "parsed"
    /\ parser = "CedarDB"
    /\ html = LinkPage("article", "div",
                       [k \in 1..4 |-> Anchor({}, <<"/blog/", "post">>)], FALSE)
    /\ ~Appears(Holder("div", <<>>), content_html)
    /\ content_html = Node("article", {}, <<Node("p", {}, <<>>)>>)

\* s holds sub as a substring
Contains(s, sub) ==
    \E k \in 0..(Len(s) - Len(sub)) : SubSeq(s, k + 1, k + Len(sub)) = sub

\* the maximal runs of characters of the table in s, as <<first, last>>
MaximalRuns(s, table) ==
    {r \in (1..Len(s)) \X (1..Len(s)) :
        /\ r[1] <= r[2]
        /\ \A k \in r[1]..r[2] : s[k] \in Keys(table)
        /\ (r[1] = 1 \/ s[r[1] - 1] \notin Keys(table))
        /\ (r[2] = Len(s) \/ s[r[2] + 1] \notin Keys(table))}
Bases(s, r, table) == [k \in 1..(r[2] - r[1] + 1) |-> Lookup(table, s[r[1] + k - 1])]

\* C24 as stated: every maximal run of Unicode superscript (subscript)
\* characters of the input is in the output of normalize_text as one
\* <sup>...</sup> (<sub>...</sub>) span holding the base characters in the same
\* order, and no superscript or subscript character of the two tables remains.
C24_RunsBecomeSpans ==
    pc = "normalized"
       => /\ \A r \in MaximalRuns(text_arg, superscripts) :
                Contains(normalized,
                         SupOpen \o Bases(text_arg, r, superscripts) \o SupClose)
          /\ \A r \in MaximalRuns(text_arg, subscripts) :
                Contains(normalized,
                         SubOpen \o Bases(text_arg, r, subscripts) \o SubClose)
          /\ \A k \in 1..Len(normalized) :
                normalized[k] \notin Keys(superscripts) \cup Keys(subscripts)

\* an a-circumflex directly followed by a character that is neither a word
\* character nor white space
HoldsGarbage(s) ==
    \E k \in 1..(Len(s) - 1) : s[k] = "a-circumflex" /\ Garbage(s[k + 1])

Interactive(elems) ==
    {k \in 1..Len(Preorder(elems)) :
        \/ Preorder(elems)[k].tag \in {"form", "iframe", "button", "input"}
        \/ Preorder(elems)[k].onclick}

\* C25: what clean_html_content returns holds no form, iframe, button or input
\* element and no element with an onclick attribute.
C25_NoInteractiveElements ==
    pc = "cleaned" => Interactive(cleaned) = {}

\* C25 witness: a paragraph of a long passage with an <input> in it comes out
\* of the Generic parser with the input and out of clean_html_content without
C25_Witness ==
    /\ pc = "cleaned"
    /\ parser = "Generic"
    /\ Interactive(<<content_html>>) # {}
    /\ html = PostPage("article",
                       <<Phrase(Node("p", {}, <<Node("input", {}, <<>>)>>), "essay")>>)
    /\ cleaned = PostPage("article", <<Phrase(Node("p", {}, <<>>), "essay")>>)

\* the h1 headings of a fragment
H1s(elems) == {k \in 1..Len(Preorder(elems)) : Preorder(elems)[k].tag = "h1"}

\* C28 as stated: parse_post and clean_html_content together remove at most
\* one h1 of the page, so that of two h1 headings one is left.
C28_AtMostOneH1Removed ==
    pc = "cleaned" => Cardinality(H1s(cleaned)) >= Cardinality(H1s(html)) - 1

\* C26: while discover_posts runs the queue holds at most one URL, and after a
\* fetch that failed it is empty, so that the loop ends.
C26_QueueAtMostOne ==
    InDiscovery
       => /\ Len(pages_to_visit) <= 1
          /\ (pc = "queued" /\ last_fetch = "failed"
                 => /\ pages_to_visit = <<>>
                    /\ ~LoopCond(pages_to_visit, pages_visited))

\* C26 witness: the second index page could not be fetched and nothing is
\* left to visit
C26_Witness ==
    /\ pc = "queued"
    /\ last_fetch = "failed"
    /\ fetch_count = 2
    /\ any_ok
    /\ pages_to_visit = <<>>

\* C27: a step of discover_posts leaves the accumulated posts as they are or
\* appends one post whose URL none of them has; the posts before it keep their
\* place, title and date, and every post has empty content.
C27_PostsOnlyAppended ==
    [][InDiscovery /\ InDiscovery'
         => /\ \/ all_posts' = all_posts
               \/ /\ Len(all_posts') = Len(all_posts) + 1
                  /\ SubSeq(all_posts', 1, Len(all_posts)) = all_posts
                  /\ \A k \in 1..Len(all_posts) :
                        all_posts[k].url # all_posts'[Len(all_posts')].url
            /\ \A k \in 1..Len(all_posts') : all_posts'[k].content_html = ""
            /\ (pc' = "returned" => posts' = all_posts)]_vars

\* C27 witness: a URL already among the posts was found again with another
\* title and date, and the first entry is still the one held
C27_Witness ==
    /\ pc = "parsing"
    /\ last_merge = "duplicate"
    /\ fetch_count = 2
    /\ Len(all_posts) = 2
    /\ all_posts[1] = BlogPost(<<1>>, 1, NoDate)

\* what __lt__ answered, and the posts it puts neither way round
Lt(a, b) == lt_result[<<a, b>>]
Tied(a, b) == ~Lt(a, b) /\ ~Lt(b, a)

\* C29: __lt__ is irreflexive, asymmetric and transitive, being tied is
\* transitive, and two posts are tied exactly when both are dated with the
\* same date or both are undated with the same title.
C29_StrictWeakOrder ==
    pc = "compared"
       => /\ \A a \in LtPosts : ~Lt(a, a)
          /\ \A a, b \in LtPosts : Lt(a, b) => ~Lt(b, a)
          /\ \A a, b, c \in LtPosts : Lt(a, b) /\ Lt(b, c) => Lt(a, c)
          /\ \A a, b, c \in LtPosts : Tied(a, b) /\ Tied(b, c) => Tied(a, c)
          /\ \A a, b \in LtPosts :
                Tied(a, b)
                   <=> \/ /\ lt_posts[a].date # NoDate
                          /\ lt_posts[a].date = lt_posts[b].date
                       \/ /\ lt_posts[a].date = NoDate
                          /\ lt_posts[b].date = NoDate
                          /\ lt_posts[a].title = lt_posts[b].title

\* C29 witness: two posts of the same date with different titles are tied,
\* and both come before an undated post
C29_Witness ==
    /\ pc = "compared"
    /\ lt_posts[1].date = 1 /\ lt_posts[2].date = 1 /\ lt_posts[3].date = NoDate
    /\ lt_posts[1].title # lt_posts[2].title
    /\ Tied(1, 2)
    /\ Lt(1, 3) /\ Lt(2, 3)

====
